---- MODULE Spec2Model ----
(***************************************************************************)
(* Model of the Catan-style benchmark engine of src/env.py                 *)
(* (StubBoard, StubGame, Player, PyCatanEngine) as driven by the loop of   *)
(* src/orchestrator.py.                                                    *)
(*                                                                         *)
(* The state is the engine's live state, plus a record of the last call as *)
(* the orchestrator's StepRecord keeps it: the action the call was given   *)
(* (call), what it returned (ret) and the engine's state when it was made  *)
(* (prev).  Init is the state __init__ and start_game leave.  One action,  *)
(* step, models the whole of PyCatanEngine.step; the draws of the engine's *)
(* random generator (two dice, one resource per seat for the yield) are    *)
(* chosen inside it.                                                       *)
(***************************************************************************)
EXTENDS Integers, Sequences, FiniteSets, TLC

VARIABLES
    intersections,            \* StubBoard.intersections: coords -> Building or NoBuilding
    paths,                    \* StubBoard.paths: path -> owner seat or None
    robber_position,          \* StubBoard.robber_position
    resources,                \* Player.resources, per seat
    roads,                    \* Player.roads, per seat
    knights_played,           \* Player.knights_played, per seat
    longest_road_owner,       \* StubGame.longest_road_owner (seat or None)
    largest_army_owner,       \* StubGame.largest_army_owner (seat or None)
    current_player_index,     \* PyCatanEngine.current_player_index
    turn,                     \* PyCatanEngine.turn
    pending_discard,          \* PyCatanEngine.pending_discard
    players_needing_discard,  \* PyCatanEngine.players_needing_discard (list)
    target_vp,                \* PyCatanEngine.target_vp
    max_turns,                \* PyCatanEngine.max_turns
    ret,                      \* what the last start_game/step call returned
    call,                     \* the action the last step call was given
    prev,                     \* the engine's state when the last step call was made
    twin                      \* the run of a first engine, while a second one repeats it

vars == <<intersections, paths, robber_position, resources, roads, knights_played,
          longest_road_owner, largest_army_owner, current_player_index, turn,
          pending_discard, players_needing_discard, target_vp, max_turns,
          ret, call, prev, twin>>

-----------------------------------------------------------------------------
(* Bounds of the model.                                                    *)

\* PyCatanEngine(max_turns=...): the turn limit of the short games explored.
ShortGame == 2

\* PyCatanEngine(target_vp=...): the victory-point targets of the short games
\* explored: 1, which the four starting settlements already meet, and LowTarget.
LowTarget == 2

TargetVps == {1, LowTarget}

\* The faces the two randint(1, 6) draws of a roll range over: 3+4 = 7
\* triggers the robber, 3+3 = 6 does not.
FirstDie == {3}

SecondDie == {3, 4}

\* The excess count of the discard a careless caller submits.
ProbeCount == 9

\* The draws of start_game's rng.choice explored: the coords of the free
\* starting settlement of seats 0..3, in seat order.
StartPlacements == { <<0, 1, 2, 3>>, <<5, 2, 11, 8>> }

-----------------------------------------------------------------------------
(* Program constants.                                                      *)

num_players == 4
NumIntersections == 12
NumPaths == 11
RobberStart == 6
StartResources == 2
DiscardLimit == 7
BankRate == 4
LongestRoadMin == 5
LargestArmyMin == 3
None == -1

Seats == 0 .. (num_players - 1)

Resource == {"BRICK", "LUMBER", "WOOL", "GRAIN", "ORE"}

RESOURCE_LIST == <<"LUMBER", "BRICK", "WOOL", "GRAIN", "ORE">>

SETTLEMENT_COST == [r \in {"BRICK", "LUMBER", "WOOL", "GRAIN"} |-> 1]

ROAD_COST == [r \in {"BRICK", "LUMBER"} |-> 1]

CITY_COST == ("ORE" :> 3) @@ ("GRAIN" :> 2)

\* res.name.lower()
name_lower(res) ==
    CASE res = "BRICK" -> "brick"
      [] res = "LUMBER" -> "lumber"
      [] res = "WOOL" -> "wool"
      [] res = "GRAIN" -> "grain"
      [] res = "ORE" -> "ore"

\* res_name.upper()
name_upper(res_name) ==
    CASE res_name = "brick" -> "BRICK"
      [] res_name = "lumber" -> "LUMBER"
      [] res_name = "wool" -> "WOOL"
      [] res_name = "grain" -> "GRAIN"
      [] res_name = "ore" -> "ORE"
      [] res_name = "gold" -> "GOLD"
      [] OTHER -> res_name

\* Resource[key] raises KeyError unless key names a member of the enum.
IsResourceName(res_name) == name_upper(res_name) \in Resource

-----------------------------------------------------------------------------
(* Lists.                                                                  *)

Range(s) == {s[i] : i \in 1 .. Len(s)}

MapSeq(s, F(_)) == [i \in 1 .. Len(s) |-> F(s[i])]

RECURSIVE Concat(_)
Concat(ss) == IF ss = <<>> THEN <<>> ELSE Head(ss) \o Concat(Tail(ss))

\* list.remove(x): drops the first occurrence of x.
RECURSIVE ListRemove(_, _)
ListRemove(s, x) ==
    IF s = <<>> THEN <<>>
    ELSE IF Head(s) = x THEN Tail(s)
    ELSE <<Head(s)>> \o ListRemove(Tail(s), x)

RECURSIVE SumSeq(_)
SumSeq(s) == IF s = <<>> THEN 0 ELSE Head(s) + SumSeq(Tail(s))

\* range(n) as a list
RangeList(n) == [i \in 1 .. n |-> i - 1]

-----------------------------------------------------------------------------
(* Building, Player, StubBoard.                                            *)

NoBuilding == [owner |-> None, building_type |-> "NONE"]

Building(owner, building_type) == [owner |-> owner, building_type |-> building_type]

\* Player.has_resources
has_resources(res, cost) == \A r \in DOMAIN cost : res[r] >= cost[r]

\* Player.pay_resources
pay_resources(res, cost) ==
    [r \in DOMAIN res |-> IF r \in DOMAIN cost THEN res[r] - cost[r] ELSE res[r]]

\* Player.total_cards
total_cards(res) == SumSeq(MapSeq(RESOURCE_LIST, LAMBDA r : res[r]))

\* The keys of StubBoard.intersections and StubBoard.paths, in insertion order.
IntersectionList == RangeList(NumIntersections)

PathList == [i \in 1 .. NumPaths |-> <<i - 1, i>>]

\* get_valid_settlement_coords as it would be if occupied intersections were
\* not left out.
get_valid_settlement_coords_occupied_too(g) == IntersectionList

\* StubBoard.get_valid_settlement_coords
get_valid_settlement_coords(g) ==
    SelectSeq(IntersectionList, LAMBDA c : g.intersections[c] = NoBuilding)

\* StubBoard.assert_valid_road_coords: TRUE when it raises nothing.
assert_valid_road_coords(g, path_coords) ==
    /\ path_coords \in DOMAIN g.paths
    /\ g.paths[path_coords] = None

-----------------------------------------------------------------------------
(* Outcomes of a call that may raise: the game it leaves and the message   *)
(* of the exception, if any.  g is the record of the mutable game data     *)
(* [intersections, paths, resources, roads].                               *)

Ok(g) == [raised |-> FALSE, error |-> "", g |-> g]

Raise(msg, g) == [raised |-> TRUE, error |-> msg, g |-> g]

-----------------------------------------------------------------------------
(* StubGame.                                                               *)

\* build_settlement as it would be if it took the payment before it looked
\* at the intersection.
build_settlement_pay_first(g, player, coords, cost_resources) ==
    IF cost_resources /\ ~has_resources(g.resources[player], SETTLEMENT_COST)
    THEN Raise("Insufficient resources for settlement", g)
    ELSE LET paid == IF cost_resources
                     THEN [g EXCEPT !.resources[player] = pay_resources(@, SETTLEMENT_COST)]
                     ELSE g
         IN  IF coords \notin DOMAIN g.intersections \/ g.intersections[coords] # NoBuilding
             THEN Raise("Invalid or occupied settlement location", paid)
             ELSE Ok([paid EXCEPT !.intersections[coords] = Building(player, "SETTLEMENT")])

\* StubGame.build_settlement
build_settlement(g, player, coords, cost_resources) ==
    IF coords \notin DOMAIN g.intersections \/ g.intersections[coords] # NoBuilding
    THEN Raise("Invalid or occupied settlement location", g)
    ELSE IF cost_resources /\ ~has_resources(g.resources[player], SETTLEMENT_COST)
    THEN Raise("Insufficient resources for settlement", g)
    ELSE LET paid == IF cost_resources
                     THEN [g EXCEPT !.resources[player] = pay_resources(@, SETTLEMENT_COST)]
                     ELSE g
         IN  Ok([paid EXCEPT !.intersections[coords] = Building(player, "SETTLEMENT")])

\* build_road as it would be without the test for an existing road.
build_road_overwrite(g, player, path_coords, cost_resources) ==
    IF path_coords \notin DOMAIN g.paths
    THEN Raise("Invalid road path", g)
    ELSE IF cost_resources /\ ~has_resources(g.resources[player], ROAD_COST)
    THEN Raise("Insufficient resources for road", g)
    ELSE LET paid == IF cost_resources
                     THEN [g EXCEPT !.resources[player] = pay_resources(@, ROAD_COST)]
                     ELSE g
         IN  Ok([paid EXCEPT !.paths[path_coords] = player,
                             !.roads[player] = @ \cup {path_coords}])

\* StubGame.build_road
build_road(g, player, path_coords, cost_resources) ==
    IF path_coords \notin DOMAIN g.paths
    THEN Raise("Invalid road path", g)
    ELSE IF g.paths[path_coords] # None
    THEN Raise("Road already exists", g)
    ELSE IF cost_resources /\ ~has_resources(g.resources[player], ROAD_COST)
    THEN Raise("Insufficient resources for road", g)
    ELSE LET paid == IF cost_resources
                     THEN [g EXCEPT !.resources[player] = pay_resources(@, ROAD_COST)]
                     ELSE g
         IN  Ok([paid EXCEPT !.paths[path_coords] = player,
                             !.roads[player] = @ \cup {path_coords}])

\* upgrade_settlement_to_city as it would be without the test that the
\* building belongs to the player.
upgrade_settlement_to_city_any_owner(g, player, coords, cost_resources) ==
    LET building == IF coords \in DOMAIN g.intersections
                    THEN g.intersections[coords]
                    ELSE NoBuilding
    IN  IF building = NoBuilding
        THEN Raise("No settlement to upgrade", g)
        ELSE IF building.building_type # "SETTLEMENT"
        THEN Raise("Already a city here", g)
        ELSE IF cost_resources /\ ~has_resources(g.resources[player], CITY_COST)
        THEN Raise("Insufficient resources for city", g)
        ELSE LET paid == IF cost_resources
                         THEN [g EXCEPT !.resources[player] = pay_resources(@, CITY_COST)]
                         ELSE g
             IN  Ok([paid EXCEPT !.intersections[coords] = Building(player, "CITY")])

\* StubGame.upgrade_settlement_to_city
upgrade_settlement_to_city(g, player, coords, cost_resources) ==
    LET building == IF coords \in DOMAIN g.intersections
                    THEN g.intersections[coords]
                    ELSE NoBuilding
    IN  IF building = NoBuilding \/ building.owner # player
        THEN Raise("No settlement to upgrade", g)
        ELSE IF building.building_type # "SETTLEMENT"
        THEN Raise("Already a city here", g)
        ELSE IF cost_resources /\ ~has_resources(g.resources[player], CITY_COST)
        THEN Raise("Insufficient resources for city", g)
        ELSE LET paid == IF cost_resources
                         THEN [g EXCEPT !.resources[player] = pay_resources(@, CITY_COST)]
                         ELSE g
             IN  Ok([paid EXCEPT !.intersections[coords] = Building(player, "CITY")])

\* add_yield_for_roll as it would be if its loop skipped the first player.
add_yield_skip_first(g, draws) ==
    [g EXCEPT !.resources = [s \in Seats |-> IF s = 0 THEN g.resources[s]
                                             ELSE [g.resources[s] EXCEPT ![draws[s]] = @ + 1]]]

\* StubGame.add_yield_for_roll: draws[s] is the resource rng.choice gives seat s.
add_yield_for_roll(g, draws) ==
    [g EXCEPT !.resources = [s \in Seats |-> [g.resources[s] EXCEPT ![draws[s]] = @ + 1]]]

\* get_victory_points as it would be if a city counted like a settlement.
get_victory_points_city_as_settlement(ints, lro, lao, player) ==
    SumSeq(MapSeq(IntersectionList,
                  LAMBDA c : IF ints[c] = NoBuilding \/ ints[c].owner # player THEN 0 ELSE 1))
    + (IF lro = player THEN 2 ELSE 0)
    + (IF lao = player THEN 2 ELSE 0)

\* StubGame.get_victory_points
get_victory_points(ints, lro, lao, player) ==
    SumSeq(MapSeq(IntersectionList,
                  LAMBDA c : IF ints[c] = NoBuilding \/ ints[c].owner # player THEN 0
                             ELSE IF ints[c].building_type = "CITY" THEN 2 ELSE 1))
    + (IF lro = player THEN 2 ELSE 0)
    + (IF lao = player THEN 2 ELSE 0)

-----------------------------------------------------------------------------
(* Actions (env.Action): a type and a payload, the payload's keys being    *)
(* fields of the record.                                                   *)

BuildSettlement(coords) == [type |-> "BUILD_SETTLEMENT", coords |-> coords]

BuildRoad(path) == [type |-> "BUILD_ROAD", path |-> path]

BuildCity(coords) == [type |-> "BUILD_CITY", coords |-> coords]

GiftTrade(to_player, resource) ==
    [type |-> "TRADE", to_player |-> to_player, resource |-> resource]

BankTrade(give, receive) == [type |-> "BANK_TRADE", give |-> give, receive |-> receive]

Discard(resource, count) == [type |-> "DISCARD", resource |-> resource, count |-> count]

EndTurn == [type |-> "END_TURN"]

MoveRobber == [type |-> "MOVE_ROBBER"]

NoCall == [type |-> "NONE"]

-----------------------------------------------------------------------------
(* PyCatanEngine helpers.                                                  *)

\* PyCatanEngine._player_resources
_player_resources(g, player_idx) ==
    [n \in {name_lower(r) : r \in Resource} |-> g.resources[player_idx][name_upper(n)]]

\* PyCatanEngine._settlement_actions
_settlement_actions(g, player) ==
    IF ~has_resources(g.resources[player], SETTLEMENT_COST) THEN <<>>
    ELSE MapSeq(get_valid_settlement_coords(g), BuildSettlement)

\* _road_actions as it would be if the paths were not tested.
_road_actions_taken_too(g, player) ==
    IF ~has_resources(g.resources[player], ROAD_COST) THEN <<>>
    ELSE MapSeq(PathList, BuildRoad)

\* PyCatanEngine._road_actions
_road_actions(g, player) ==
    IF ~has_resources(g.resources[player], ROAD_COST) THEN <<>>
    ELSE MapSeq(SelectSeq(PathList, LAMBDA p : assert_valid_road_coords(g, p)), BuildRoad)

\* _city_actions as it would be without the test of the building's owner.
_city_actions_any_owner(g, player) ==
    IF ~has_resources(g.resources[player], CITY_COST) THEN <<>>
    ELSE MapSeq(SelectSeq(IntersectionList,
                          LAMBDA c : /\ g.intersections[c] # NoBuilding
                                     /\ g.intersections[c].building_type = "SETTLEMENT"),
                BuildCity)

\* PyCatanEngine._city_actions
_city_actions(g, player) ==
    IF ~has_resources(g.resources[player], CITY_COST) THEN <<>>
    ELSE MapSeq(SelectSeq(IntersectionList,
                          LAMBDA c : /\ g.intersections[c] # NoBuilding
                                     /\ g.intersections[c].owner = player
                                     /\ g.intersections[c].building_type = "SETTLEMENT"),
                BuildCity)

\* _trade_actions as it would be without the test that skips the current seat.
_trade_actions_to_self_too(g, cur) ==
    LET player_res == _player_resources(g, cur)
        res_types == MapSeq(RESOURCE_LIST, name_lower)
    IN  Concat(MapSeq(res_types,
                 LAMBDA give_res :
                     IF player_res[give_res] <= 0 THEN <<>>
                     ELSE MapSeq(RangeList(num_players),
                                 LAMBDA other_idx : GiftTrade(other_idx, give_res))))

\* _trade_actions as it would be if the loop over the seats were the outer one.
_trade_actions_by_seat(g, cur) ==
    LET player_res == _player_resources(g, cur)
        res_types == MapSeq(RESOURCE_LIST, name_lower)
        others == SelectSeq(RangeList(num_players), LAMBDA i : i # cur)
        held == SelectSeq(res_types, LAMBDA n : player_res[n] > 0)
    IN  Concat(MapSeq(others,
                 LAMBDA other_idx : MapSeq(held, LAMBDA give_res : GiftTrade(other_idx, give_res))))

\* PyCatanEngine._trade_actions
_trade_actions(g, cur) ==
    LET player_res == _player_resources(g, cur)
        res_types == MapSeq(RESOURCE_LIST, name_lower)
        others == SelectSeq(RangeList(num_players), LAMBDA i : i # cur)
    IN  IF SumSeq(MapSeq(res_types, LAMBDA n : player_res[n])) = 0 THEN <<>>
        ELSE Concat(MapSeq(res_types,
                 LAMBDA give_res :
                     IF player_res[give_res] <= 0 THEN <<>>
                     ELSE MapSeq(others, LAMBDA other_idx : GiftTrade(other_idx, give_res))))

\* _bank_trade_actions as it would be if a resource could be traded for itself.
_bank_trade_actions_same_too(g, cur) ==
    LET player_res == _player_resources(g, cur)
    IN  Concat(MapSeq(RESOURCE_LIST,
            LAMBDA give_res :
                IF player_res[name_lower(give_res)] >= BankRate
                THEN MapSeq(RESOURCE_LIST,
                            LAMBDA get_res : BankTrade(name_lower(give_res), name_lower(get_res)))
                ELSE <<>>))

\* PyCatanEngine._bank_trade_actions
_bank_trade_actions(g, cur) ==
    LET player_res == _player_resources(g, cur)
    IN  Concat(MapSeq(RESOURCE_LIST,
            LAMBDA give_res :
                IF player_res[name_lower(give_res)] >= BankRate
                THEN MapSeq(SelectSeq(RESOURCE_LIST, LAMBDA get_res : give_res # get_res),
                            LAMBDA get_res : BankTrade(name_lower(give_res), name_lower(get_res)))
                ELSE <<>>))

\* max(RESOURCE_LIST, key=...): the first resource of the list with the largest count.
MaxResource(res) ==
    LET i == CHOOSE i \in 1 .. Len(RESOURCE_LIST) :
                 /\ \A j \in 1 .. Len(RESOURCE_LIST) : res[RESOURCE_LIST[j]] <= res[RESOURCE_LIST[i]]
                 /\ \A j \in 1 .. (i - 1) : res[RESOURCE_LIST[j]] < res[RESOURCE_LIST[i]]
    IN  RESOURCE_LIST[i]

\* _discard_actions as it would be if the offer of the most-held resource
\* declared the whole required count instead of min(count, holding).
_discard_actions_full_count(g, player) ==
    LET res == g.resources[player]
        total == total_cards(res)
        discard_count == total \div 2
        single == MapSeq(SelectSeq(RESOURCE_LIST,
                                   LAMBDA r : res[r] >= discard_count /\ discard_count > 0),
                         LAMBDA r : Discard(name_lower(r), discard_count))
        max_res == MaxResource(res)
        max_count == res[max_res]
        effort == IF single = <<>> /\ discard_count > 0 /\ max_count > 0
                  THEN <<Discard(name_lower(max_res), discard_count)>>
                  ELSE single
    IN  IF discard_count = 0 THEN <<EndTurn>>
        ELSE IF effort = <<>> THEN <<EndTurn>>
        ELSE effort

\* _discard_actions as it would be without the offer of the most-held
\* resource when no resource reaches the count.
_discard_actions_no_best_effort(g, player) ==
    LET res == g.resources[player]
        total == total_cards(res)
        discard_count == total \div 2
        single == MapSeq(SelectSeq(RESOURCE_LIST,
                                   LAMBDA r : res[r] >= discard_count /\ discard_count > 0),
                         LAMBDA r : Discard(name_lower(r), discard_count))
    IN  IF discard_count = 0 THEN <<EndTurn>>
        ELSE IF single = <<>> THEN <<EndTurn>>
        ELSE single

\* PyCatanEngine._discard_actions
_discard_actions(g, player) ==
    LET res == g.resources[player]
        total == total_cards(res)
        discard_count == total \div 2
        single == MapSeq(SelectSeq(RESOURCE_LIST,
                                   LAMBDA r : res[r] >= discard_count /\ discard_count > 0),
                         LAMBDA r : Discard(name_lower(r), discard_count))
        max_res == MaxResource(res)
        max_count == res[max_res]
        effort == IF single = <<>> /\ discard_count > 0 /\ max_count > 0
                  THEN <<Discard(name_lower(max_res),
                                 IF discard_count < max_count THEN discard_count ELSE max_count)>>
                  ELSE single
    IN  IF discard_count = 0 THEN <<EndTurn>>
        ELSE IF effort = <<>> THEN <<EndTurn>>
        ELSE effort

\* The test of get_legal_actions and step for the discard phase.
InDiscardPhase(pending, cur, queue) == pending /\ cur \in Range(queue)

\* get_legal_actions as it would be without the final append of END_TURN.
legal_actions_no_end_turn(g, cur, pending, queue) ==
    IF InDiscardPhase(pending, cur, queue) THEN _discard_actions(g, cur)
    ELSE _settlement_actions(g, cur)
         \o _road_actions(g, cur)
         \o _city_actions(g, cur)
         \o _trade_actions(g, cur)
         \o _bank_trade_actions(g, cur)

\* PyCatanEngine.get_legal_actions
legal_actions(g, cur, pending, queue) ==
    IF InDiscardPhase(pending, cur, queue) THEN _discard_actions(g, cur)
    ELSE _settlement_actions(g, cur)
         \o _road_actions(g, cur)
         \o _city_actions(g, cur)
         \o _trade_actions(g, cur)
         \o _bank_trade_actions(g, cur)
         \o <<EndTurn>>

-----------------------------------------------------------------------------
(* Transfers, discards, achievements, snapshots.                           *)

\* self.game.players[idx]: the seat a Python list index reaches, None when
\* the index is out of range (IndexError).  Negative indexes count from the end.
PlayerAt(idx) ==
    IF idx \in 0 .. (num_players - 1) THEN idx
    ELSE IF idx \in (0 - num_players) .. (0 - 1) THEN idx + num_players
    ELSE None

\* _apply_trade as it would be if the recipient were given nothing.
_apply_trade_no_receipt(g, from_idx, to_idx, res_name) ==
    IF ~IsResourceName(res_name)
    THEN Raise("'" \o name_upper(res_name) \o "'", g)
    ELSE IF PlayerAt(from_idx) = None \/ PlayerAt(to_idx) = None
    THEN Raise("list index out of range", g)
    ELSE LET res_enum == name_upper(res_name)
             from_player == PlayerAt(from_idx)
         IN  IF g.resources[from_player][res_enum] <= 0
             THEN Raise("Player " \o ToString(from_idx) \o " doesn't have "
                        \o res_name \o " to trade", g)
             ELSE Ok([g EXCEPT !.resources[from_player][res_enum] = @ - 1])

\* PyCatanEngine._apply_trade
_apply_trade(g, from_idx, to_idx, res_name) ==
    IF ~IsResourceName(res_name)
    THEN Raise("'" \o name_upper(res_name) \o "'", g)
    ELSE IF PlayerAt(from_idx) = None \/ PlayerAt(to_idx) = None
    THEN Raise("list index out of range", g)
    ELSE LET res_enum == name_upper(res_name)
             from_player == PlayerAt(from_idx)
             to_player == PlayerAt(to_idx)
         IN  IF g.resources[from_player][res_enum] <= 0
             THEN Raise("Player " \o ToString(from_idx) \o " doesn't have "
                        \o res_name \o " to trade", g)
             ELSE LET taken == [g EXCEPT !.resources[from_player][res_enum] = @ - 1]
                  IN  Ok([taken EXCEPT !.resources[to_player][res_enum] = @ + 1])

\* _apply_bank_trade as it would be if the test asked for one card less than
\* the trade takes.
_apply_bank_trade_lax_test(g, player, give_res, get_res) ==
    IF ~IsResourceName(give_res)
    THEN Raise("'" \o name_upper(give_res) \o "'", g)
    ELSE IF ~IsResourceName(get_res)
    THEN Raise("'" \o name_upper(get_res) \o "'", g)
    ELSE LET give_enum == name_upper(give_res)
             get_enum == name_upper(get_res)
         IN  IF g.resources[player][give_enum] < BankRate - 1
             THEN Raise("Need 4 " \o give_res \o " for bank trade", g)
             ELSE LET taken == [g EXCEPT !.resources[player][give_enum] = @ - BankRate]
                  IN  Ok([taken EXCEPT !.resources[player][get_enum] = @ + 1])

\* PyCatanEngine._apply_bank_trade
_apply_bank_trade(g, player, give_res, get_res) ==
    IF ~IsResourceName(give_res)
    THEN Raise("'" \o name_upper(give_res) \o "'", g)
    ELSE IF ~IsResourceName(get_res)
    THEN Raise("'" \o name_upper(get_res) \o "'", g)
    ELSE LET give_enum == name_upper(give_res)
             get_enum == name_upper(get_res)
         IN  IF g.resources[player][give_enum] < BankRate
             THEN Raise("Need 4 " \o give_res \o " for bank trade", g)
             ELSE LET taken == [g EXCEPT !.resources[player][give_enum] = @ - BankRate]
                  IN  Ok([taken EXCEPT !.resources[player][get_enum] = @ + 1])

\* _apply_discard as it would be if it checked the action and took no card.
_apply_discard_keeps_cards(g, player, action) ==
    IF action.type = "END_TURN" THEN Ok(g)
    ELSE IF action.type # "DISCARD"
    THEN Raise("Expected DISCARD action during discard phase", g)
    ELSE IF ~IsResourceName(action.resource)
    THEN Raise("'" \o name_upper(action.resource) \o "'", g)
    ELSE Ok(g)

\* _apply_discard as it would be without the clamp to what the seat holds.
_apply_discard_unclamped(g, player, action) ==
    IF action.type = "END_TURN" THEN Ok(g)
    ELSE IF action.type # "DISCARD"
    THEN Raise("Expected DISCARD action during discard phase", g)
    ELSE IF ~IsResourceName(action.resource)
    THEN Raise("'" \o name_upper(action.resource) \o "'", g)
    ELSE IF action.count > 0
    THEN Ok([g EXCEPT !.resources[player][name_upper(action.resource)] = @ - action.count])
    ELSE Ok(g)

\* _apply_discard as it would be if it always took the seat's whole holding
\* of the resource.
_apply_discard_whole_holding(g, player, action) ==
    IF action.type = "END_TURN" THEN Ok(g)
    ELSE IF action.type # "DISCARD"
    THEN Raise("Expected DISCARD action during discard phase", g)
    ELSE IF ~IsResourceName(action.resource)
    THEN Raise("'" \o name_upper(action.resource) \o "'", g)
    ELSE LET res_enum == name_upper(action.resource)
             actual_discard == g.resources[player][res_enum]
         IN  IF actual_discard > 0
             THEN Ok([g EXCEPT !.resources[player][res_enum] = @ - actual_discard])
             ELSE Ok(g)

\* PyCatanEngine._apply_discard
_apply_discard(g, player, action) ==
    IF action.type = "END_TURN" THEN Ok(g)
    ELSE IF action.type # "DISCARD"
    THEN Raise("Expected DISCARD action during discard phase", g)
    ELSE IF ~IsResourceName(action.resource)
    THEN Raise("'" \o name_upper(action.resource) \o "'", g)
    ELSE LET res_enum == name_upper(action.resource)
             count == action.count
             available == g.resources[player][res_enum]
             actual_discard == IF available < count THEN available ELSE count
         IN  IF actual_discard > 0
             THEN Ok([g EXCEPT !.resources[player][res_enum] = @ - actual_discard])
             ELSE Ok(g)

\* achievement_owner as it would be if a tie displaced the owner (>= for >).
RECURSIVE achievement_owner_on_tie(_, _, _, _)
achievement_owner_on_tie(counts, minimum, owner, i) ==
    IF i >= num_players THEN owner
    ELSE achievement_owner_on_tie(counts, minimum,
             IF counts[i] >= minimum /\ (owner = None \/ counts[i] >= counts[owner])
             THEN i ELSE owner,
             i + 1)

\* One pass of a loop of _update_special_achievements over the seats from i on:
\* counts[s] is the seat's road (or knight) count, owner the owner so far.
RECURSIVE achievement_owner(_, _, _, _)
achievement_owner(counts, minimum, owner, i) ==
    IF i >= num_players THEN owner
    ELSE achievement_owner(counts, minimum,
             IF counts[i] >= minimum /\ (owner = None \/ counts[i] > counts[owner])
             THEN i ELSE owner,
             i + 1)

\* PyCatanEngine._update_special_achievements: the new longest-road owner
longest_road_update(rds, lro) ==
    achievement_owner([s \in Seats |-> Cardinality(rds[s])], LongestRoadMin, lro, 0)

\* largest_army_update as it would be without the minimum of three knights.
largest_army_update_no_minimum(knights, lao) ==
    achievement_owner(knights, 0, lao, 0)

\* PyCatanEngine._update_special_achievements: the new largest-army owner
largest_army_update(knights, lao) ==
    achievement_owner(knights, LargestArmyMin, lao, 0)

\* PyCatanEngine._export_state
_export_state(g, lro, lao, robber, cur, t, pending) ==
    [turn |-> t,
     current_player_index |-> cur,
     victory_points |-> [s \in Seats |-> get_victory_points(g.intersections, lro, lao, s)],
     resources |-> [s \in Seats |-> _player_resources(g, s)],
     longest_road_owner |-> lro,
     largest_army_owner |-> lao,
     robber_position |-> robber,
     pending_discard |-> pending]

\* _get_winner_index as it would be if a tie went to the last seat at the maximum.
_get_winner_index_last(state) ==
    LET vp == state.victory_points
        best_vp == CHOOSE v \in Range([i \in 1 .. num_players |-> vp[i - 1]]) :
                       \A s \in Seats : vp[s] <= v
    IN  IF best_vp < target_vp THEN None
        ELSE CHOOSE i \in Seats :
                 vp[i] = best_vp /\ \A j \in (i + 1) .. (num_players - 1) : vp[j] # best_vp

\* PyCatanEngine._get_winner_index
_get_winner_index(state) ==
    LET vp == state.victory_points
        best_vp == CHOOSE v \in Range([i \in 1 .. num_players |-> vp[i - 1]]) :
                       \A s \in Seats : vp[s] <= v
    IN  IF best_vp < target_vp THEN None
        ELSE CHOOSE i \in Seats : vp[i] = best_vp /\ \A j \in 0 .. (i - 1) : vp[j] # best_vp

-----------------------------------------------------------------------------
(* PyCatanEngine.step.                                                     *)

\* The mutable game data of the current state.
Game == [intersections |-> intersections, paths |-> paths,
         resources |-> resources, roads |-> roads]

\* The engine's state, as prev records it.
Engine ==
    [intersections |-> intersections, paths |-> paths,
     resources |-> resources, roads |-> roads,
     longest_road_owner |-> longest_road_owner,
     largest_army_owner |-> largest_army_owner,
     current_player_index |-> current_player_index,
     turn |-> turn,
     pending_discard |-> pending_discard,
     players_needing_discard |-> players_needing_discard]

\* info[key] = value
Put(info, key, value) == (key :> value) @@ info

EmptyInfo == [k \in {} |-> TRUE]

\* The state a step call leaves and the triple (state, done, info) it returns.
Return(g, lro, lao, cur, t, pending, queue, state, done, info, action) ==
    /\ intersections' = g.intersections
    /\ paths' = g.paths
    /\ resources' = g.resources
    /\ roads' = g.roads
    /\ longest_road_owner' = lro
    /\ largest_army_owner' = lao
    /\ current_player_index' = cur
    /\ turn' = t
    /\ pending_discard' = pending
    /\ players_needing_discard' = queue
    /\ ret' = [state |-> state, done |-> done, info |-> info]
    /\ call' = action
    /\ prev' = Engine
    /\ UNCHANGED <<robber_position, knights_played, target_vp, max_turns>>

\* step, the try block "Apply action": the action applied for seat player.
apply_action(g, player, action) ==
    CASE action.type = "BUILD_SETTLEMENT" -> build_settlement(g, player, action.coords, TRUE)
      [] action.type = "BUILD_ROAD" -> build_road(g, player, action.path, TRUE)
      [] action.type = "BUILD_CITY" -> upgrade_settlement_to_city(g, player, action.coords, TRUE)
      [] action.type = "TRADE" -> _apply_trade(g, current_player_index, action.to_player,
                                               action.resource)
      [] action.type = "BANK_TRADE" -> _apply_bank_trade(g, player, action.give, action.receive)
      [] action.type = "END_TURN" -> Ok(g)
      [] OTHER -> Raise("Unknown action type: ActionType." \o action.type, g)

\* over_limit_seats as it would be if the seats were listed from the last
\* to the first.
over_limit_seats_descending(g) ==
    LET q == SelectSeq(RangeList(num_players),
                       LAMBDA i : total_cards(g.resources[i]) > DiscardLimit)
    IN  [i \in 1 .. Len(q) |-> q[Len(q) + 1 - i]]

\* over_limit_seats as it would be with >= for >.
over_limit_seats_inclusive(g) ==
    SelectSeq(RangeList(num_players), LAMBDA i : total_cards(g.resources[i]) >= DiscardLimit)

\* step, the list of the seats that must discard after a 7.
over_limit_seats(g) ==
    SelectSeq(RangeList(num_players), LAMBDA i : total_cards(g.resources[i]) > DiscardLimit)

\* next_player as it would be without the wrap-around.
next_player_no_wrap(cur) == cur + 1

\* step, "Advance turn": the seat that plays after seat cur.
next_player(cur) == (cur + 1) % num_players

\* game_over as it would be if the turn limit were tested with > for >=.
game_over_past_limit(winner_index, t) == winner_index # None \/ t > max_turns

\* step: done = winner_index is not None or self.turn >= self.max_turns
game_over(winner_index, t) == winner_index # None \/ t >= max_turns

\* step from "Apply action" to the end: the rest of a turn that was not
\* pre-empted, on the game g the roll left.
finish_turn(g, player, queue, info, action_succeeded, action) ==
    LET res == apply_action(g, player, action)
        marked == IF action.type = "TRADE" /\ ~res.raised
                  THEN Put(Put(info, "is_trade", TRUE), "trade_payload",
                           [to_player |-> action.to_player, resource |-> action.resource])
                  ELSE IF action.type = "BANK_TRADE" /\ ~res.raised
                  THEN Put(Put(info, "is_bank_trade", TRUE), "bank_trade_payload",
                           [give |-> action.give, receive |-> action.receive])
                  ELSE info
        failed == IF res.raised
                  THEN Put(Put(marked, "action_error", res.error), "action_failed", TRUE)
                  ELSE marked
        info2 == Put(failed, "action_succeeded", action_succeeded /\ ~res.raised)
        t == turn + 1
        cur == next_player(current_player_index)
        lro == longest_road_update(res.g.roads, longest_road_owner)
        lao == largest_army_update(knights_played, largest_army_owner)
        state == _export_state(res.g, lro, lao, robber_position, cur, t, pending_discard)
        winner_index == _get_winner_index(state)
        done == game_over(winner_index, t)
        info3 == IF done /\ winner_index # None
                 THEN Put(info2, "winner_index", winner_index)
                 ELSE info2
    IN  Return(res.g, lro, lao, cur, t, pending_discard, queue, state, done, info3, action)

\* The yields explored: draws[s] is the resource rng.choice gives seat s.
\* Every seat draws the same resource, or the seats draw four different ones.
YieldDraws ==
    {[s \in Seats |-> "ORE"], [s \in Seats |-> RESOURCE_LIST[s + 1]]}

\* roll_and_play as it would be if the yield were given before the robber
\* is handled.
roll_and_play_yield_first(g, player, info, action_succeeded, action, roll, yields) ==
    LET info1 == Put(info, "roll", roll)
    IN  \E draws \in yields :
            LET y == add_yield_for_roll(g, draws)
            IN  IF roll = 7
                THEN LET info2 == Put(info1, "robber_rolled", TRUE)
                         queue == over_limit_seats(y)
                     IN  IF queue # <<>>
                         THEN Return(y, longest_road_owner, largest_army_owner, queue[1],
                                     turn, TRUE, queue,
                                     _export_state(y, longest_road_owner, largest_army_owner,
                                                   robber_position, queue[1], turn, TRUE),
                                     FALSE, info2, action)
                         ELSE finish_turn(y, player, queue, info2, action_succeeded, action)
                ELSE finish_turn(y, player, players_needing_discard, info1,
                                 action_succeeded, action)

\* step from the dice on, for the roll the two randint draws add up to:
\* robber, yield, then the turn.
roll_and_play(g, player, info, action_succeeded, action, roll, yields) ==
    LET info1 == Put(info, "roll", roll)
    IN  IF roll = 7
        THEN LET info2 == Put(info1, "robber_rolled", TRUE)
                 queue == over_limit_seats(g)
             IN  IF queue # <<>>
                 THEN Return(g, longest_road_owner, largest_army_owner, queue[1], turn,
                             TRUE, queue,
                             _export_state(g, longest_road_owner, largest_army_owner,
                                           robber_position, queue[1], turn, TRUE),
                             FALSE, info2, action)
                 ELSE finish_turn(g, player, queue, info2, action_succeeded, action)
        ELSE \E draws \in yields :
                 finish_turn(add_yield_for_roll(g, draws), player, players_needing_discard,
                             info1, action_succeeded, action)

\* The sums the two dice draws can give.
Rolls == {d1 + d2 : d1 \in FirstDie, d2 \in SecondDie}

\* discard_return as it would be if pending_discard were never cleared.
discard_return_keeps_pending(g, action) ==
    LET queue == ListRemove(players_needing_discard, current_player_index)
        cur == IF queue # <<>> THEN queue[1] ELSE current_player_index
    IN  Return(g, longest_road_owner, largest_army_owner, cur, turn, pending_discard, queue,
               _export_state(g, longest_road_owner, largest_army_owner,
                             robber_position, cur, turn, pending_discard),
               FALSE, EmptyInfo, action)

\* discard_return as it would be if the turn passed to the next seat when
\* the queue empties.
discard_return_passes_turn(g, action) ==
    LET queue == ListRemove(players_needing_discard, current_player_index)
        cur == IF queue # <<>> THEN queue[1] ELSE next_player(current_player_index)
        pending == IF queue # <<>> THEN pending_discard ELSE FALSE
    IN  Return(g, longest_road_owner, largest_army_owner, cur, turn, pending, queue,
               _export_state(g, longest_road_owner, largest_army_owner,
                             robber_position, cur, turn, pending),
               FALSE, EmptyInfo, action)

\* discard_return as it would be if the next seat were taken from the queue
\* in no fixed order.
discard_return_any_seat(g, action) ==
    LET queue == ListRemove(players_needing_discard, current_player_index)
        pending == IF queue # <<>> THEN pending_discard ELSE FALSE
    IN  \E cur \in (IF queue # <<>> THEN Range(queue) ELSE {current_player_index}) :
            Return(g, longest_road_owner, largest_army_owner, cur, turn, pending, queue,
                   _export_state(g, longest_road_owner, largest_army_owner,
                                 robber_position, cur, turn, pending),
                   FALSE, EmptyInfo, action)

\* step, the discard phase when _apply_discard raised nothing: the seat
\* leaves the queue and the call returns.
discard_return(g, action) ==
    LET queue == ListRemove(players_needing_discard, current_player_index)
        cur == IF queue # <<>> THEN queue[1] ELSE current_player_index
        pending == IF queue # <<>> THEN pending_discard ELSE FALSE
    IN  Return(g, longest_road_owner, largest_army_owner, cur, turn, pending, queue,
               _export_state(g, longest_road_owner, largest_army_owner,
                             robber_position, cur, turn, pending),
               FALSE, EmptyInfo, action)

\* PyCatanEngine.step(action); the draws of self.rng are chosen inside: the
\* dice add up to one of rolls, the yield gives the seats one of yields.
step(action, rolls, yields) ==
    LET player == current_player_index
        in_discard == InDiscardPhase(pending_discard, current_player_index,
                                     players_needing_discard)
        dis == _apply_discard(Game, player, action)
    IN  IF in_discard /\ ~dis.raised
        THEN discard_return(dis.g, action)
        ELSE \E roll \in rolls :
                 IF in_discard
                 THEN roll_and_play(Game, player,
                                    Put(Put(EmptyInfo, "action_error", dis.error),
                                        "action_failed", TRUE),
                                    FALSE, action, roll, yields)
                 ELSE roll_and_play(Game, player, EmptyInfo, TRUE, action, roll, yields)

-----------------------------------------------------------------------------
(* start_game.                                                             *)

\* The empty board and the seeded holdings start_game builds on.
NewGame ==
    [intersections |-> [c \in 0 .. (NumIntersections - 1) |-> NoBuilding],
     paths |-> [p \in Range(PathList) |-> None],
     resources |-> [s \in Seats |-> [r \in Resource |-> StartResources]],
     roads |-> [s \in Seats |-> {}]]

\* place_settlements as it would be if the starting settlements were paid
\* for (cost_resources=True).
RECURSIVE place_settlements_paid(_, _, _)
place_settlements_paid(g, placement, idx) ==
    IF idx >= num_players THEN g
    ELSE IF get_valid_settlement_coords(g) = <<>>
    THEN place_settlements_paid(g, placement, idx + 1)
    ELSE place_settlements_paid(build_settlement(g, idx, placement[idx + 1], TRUE).g,
                                placement, idx + 1)

\* start_game's loop of free settlements from seat idx on: placement[idx + 1]
\* is the coords rng.choice draws for seat idx.
RECURSIVE place_settlements(_, _, _)
place_settlements(g, placement, idx) ==
    IF idx >= num_players THEN g
    ELSE IF get_valid_settlement_coords(g) = <<>>
    THEN place_settlements(g, placement, idx + 1)
    ELSE place_settlements(build_settlement(g, idx, placement[idx + 1], FALSE).g,
                           placement, idx + 1)

\* PyCatanEngine.start_game (after __init__), for one draw of the placements.
start_game(placement) ==
    LET g == place_settlements(NewGame, placement, 0)
    IN  /\ intersections = g.intersections
        /\ paths = g.paths
        /\ resources = g.resources
        /\ roads = g.roads
        /\ robber_position = RobberStart
        /\ knights_played = [s \in Seats |-> 0]
        /\ longest_road_owner = None
        /\ largest_army_owner = None
        /\ current_player_index = 0
        /\ turn = 0
        /\ pending_discard = FALSE
        /\ players_needing_discard = <<>>
        /\ ret = [state |-> _export_state(g, None, None, RobberStart, 0, 0, FALSE),
                  done |-> FALSE,
                  info |-> EmptyInfo]
        /\ call = NoCall
        /\ prev = [intersections |-> g.intersections, paths |-> g.paths,
                   resources |-> g.resources, roads |-> g.roads,
                   longest_road_owner |-> None, largest_army_owner |-> None,
                   current_player_index |-> 0, turn |-> 0,
                   pending_discard |-> FALSE, players_needing_discard |-> <<>>]

\* start_game_again as it would be if start_game did not reset the discard
\* phase.
start_game_again_keeps_discards(placement) ==
    LET g == place_settlements(NewGame, placement, 0)
    IN  /\ intersections' = g.intersections
        /\ paths' = g.paths
        /\ resources' = g.resources
        /\ roads' = g.roads
        /\ robber_position' = RobberStart
        /\ knights_played' = [s \in Seats |-> 0]
        /\ longest_road_owner' = None
        /\ largest_army_owner' = None
        /\ current_player_index' = 0
        /\ turn' = 0
        /\ ret' = [state |-> _export_state(g, None, None, RobberStart, 0, 0, pending_discard),
                   done |-> FALSE,
                   info |-> EmptyInfo]
        /\ call' = NoCall
        /\ prev' = Engine
        /\ UNCHANGED <<pending_discard, players_needing_discard, target_vp, max_turns>>

\* PyCatanEngine.start_game called on an engine that already holds a game,
\* for one draw of the placements: the state it leaves and what it returns.
start_game_again(placement) ==
    LET g == place_settlements(NewGame, placement, 0)
    IN  /\ intersections' = g.intersections
        /\ paths' = g.paths
        /\ resources' = g.resources
        /\ roads' = g.roads
        /\ robber_position' = RobberStart
        /\ knights_played' = [s \in Seats |-> 0]
        /\ longest_road_owner' = None
        /\ largest_army_owner' = None
        /\ current_player_index' = 0
        /\ turn' = 0
        /\ pending_discard' = FALSE
        /\ players_needing_discard' = <<>>
        /\ ret' = [state |-> _export_state(g, None, None, RobberStart, 0, 0, FALSE),
                   done |-> FALSE,
                   info |-> EmptyInfo]
        /\ call' = NoCall
        /\ prev' = Engine
        /\ UNCHANGED <<target_vp, max_turns>>

\* PyCatanEngine.__init__: the parameters the engine is constructed with.
new_engine(vp, mt) ==
    /\ target_vp = vp
    /\ max_turns = mt

\* No run is being repeated.
NoTwin == [placement |-> <<>>, start |-> <<>>, log |-> <<>>, second |-> FALSE, pos |-> 0]

Init ==
    /\ \E placement \in StartPlacements, vp \in TargetVps :
           new_engine(vp, ShortGame) /\ start_game(placement)
    /\ twin = NoTwin

-----------------------------------------------------------------------------
(* The driving loop (GameOrchestrator.play_single_game): step is called    *)
(* until it returns done.                                                  *)

\* get_legal_actions() in the current state
get_legal_actions ==
    legal_actions(Game, current_player_index, pending_discard, players_needing_discard)

\* A step call with an action drawn from get_legal_actions.
StepLegal ==
    /\ ~ret.done
    /\ \E action \in Range(get_legal_actions) : step(action, Rolls, YieldDraws)
    /\ UNCHANGED twin

NextLegal == StepLegal

\* The engine under a caller that keeps the contract of get_legal_actions.
SpecLegal == Init /\ [][NextLegal]_vars

\* One iteration of the loop of play_single_game: the legal actions are
\* asked for and step is called with one of them; the dice fall either way
\* and the yield, if one is given, is ore for every seat.
StepLoop ==
    /\ ~ret.done
    /\ \E action \in Range(get_legal_actions) :
           step(action, Rolls, {[s \in Seats |-> "ORE"]})
    /\ UNCHANGED twin

NextLoop == StepLoop

\* PyCatanEngine(max_turns=...): the turn limit of the games the loop is
\* followed through to their end.
LoopTurns == 1

\* Such a game after start_game placed the settlements of seats 0..3 on
\* intersections 0..3.
InitLoop ==
    /\ \E vp \in TargetVps : new_engine(vp, LoopTurns) /\ start_game(<<0, 1, 2, 3>>)
    /\ twin = NoTwin

\* The loop runs "while not done": an iteration that can be made is made.
SpecLoop == InitLoop /\ [][NextLoop]_vars /\ WF_vars(StepLoop)

\* The opening turn explored before the caller stops keeping the contract:
\* seat 0 builds the first road, on a roll of 6 that yields ore to every seat.
OpeningActions == {BuildRoad(<<0, 1>>)}

OpeningRolls == {6}

OpeningYields == {[s \in Seats |-> "ORE"]}

\* The actions a caller that ignores get_legal_actions is taken to submit:
\* builds on free, occupied, foreign and nonexistent places, gifts to a seat
\* (possibly oneself), to a seat that does not exist and of a resource that
\* does not exist, a bank trade, a discard of more than is held, END_TURN.
ProbeActions ==
    {BuildSettlement(0), BuildSettlement(12),
     BuildRoad(<<0, 1>>), BuildRoad(<<1, 2>>), BuildRoad(<<11, 12>>),
     BuildCity(2), BuildCity(7),
     GiftTrade(1, "ore"), GiftTrade(4, "ore"), GiftTrade(0, "gold"),
     BankTrade("ore", "brick"),
     Discard("lumber", ProbeCount),
     EndTurn}

\* The actions such a caller is taken to submit in the discard phase, besides
\* the discard get_legal_actions offers: a build, a discard of more than is
\* held, END_TURN.
DiscardProbes == {BuildRoad(<<1, 2>>), Discard("lumber", ProbeCount), EndTurn}

\* The first step call, with the opening.
Opening ==
    /\ ~ret.done
    /\ turn = 0
    /\ \E action \in OpeningActions \cap Range(get_legal_actions) :
           step(action, OpeningRolls, OpeningYields)
    /\ UNCHANGED twin

\* A later step call with any action.
StepAny ==
    /\ ~ret.done
    /\ turn >= 1
    /\ \E action \in (IF InDiscardPhase(pending_discard, current_player_index,
                                        players_needing_discard)
                      THEN DiscardProbes \cup Range(get_legal_actions)
                      ELSE ProbeActions) :
           step(action, Rolls, YieldDraws)
    /\ UNCHANGED twin

Next == Opening \/ StepAny

\* The engine under a caller that, after the opening, submits any action.
Spec == Init /\ [][Next]_vars

-----------------------------------------------------------------------------
(* Longer games with the engine's default parameters.  A scripted opening  *)
(* of legal actions and fixed draws leads to the position explored; from   *)
(* there the calls are free.                                               *)

\* start_game called again, as play_single_game does at the start of every
\* game, on an engine that has been stepped.
StartAgain ==
    /\ call # NoCall
    /\ \E placement \in StartPlacements : start_game_again(placement)
    /\ UNCHANGED twin

NextReplay == Opening \/ StepAny \/ StartAgain

\* The engine under a caller that may start a new game at any time.
SpecReplay == Init /\ [][NextReplay]_vars

\* PyCatanEngine.__init__ defaults
DefaultTargetVp == 10
DefaultMaxTurns == 500

\* An engine constructed with the defaults, after start_game placed the
\* settlements of seats 0..3 on intersections 0..3.
InitDefault ==
    /\ new_engine(DefaultTargetVp, DefaultMaxTurns)
    /\ start_game(<<0, 1, 2, 3>>)
    /\ twin = NoTwin

\* The yield that gives every seat ore.
OreYield == [s \in Seats |-> "ORE"]

\* The roads seats 0 and 1 build in the scripted opening, one a round.
RoadPlan0 == << <<0, 1>>, <<1, 2>>, <<2, 3>>, <<3, 4>> >>

RoadPlan1 == << <<4, 5>>, <<5, 6>>, <<6, 7>>, <<7, 8>> >>

\* The turn at which the road script ends: seats 0 and 1 own four roads each.
RoadScriptEnd == Len(RoadPlan0) * num_players

\* The number of free turns explored after the road script.
RoadTurns == 6

\* A scripted turn: seats 0 and 1 build their next road, seats 2 and 3 end
\* their turn; the roll is 6 and the yield pays seats 0 and 1 brick and lumber
\* in turn.
ScriptedRoadTurn ==
    /\ ~ret.done
    /\ turn < RoadScriptEnd
    /\ LET round == (turn \div num_players) + 1
           action == IF current_player_index = 0 THEN BuildRoad(RoadPlan0[round])
                     ELSE IF current_player_index = 1 THEN BuildRoad(RoadPlan1[round])
                     ELSE EndTurn
           draws == [s \in Seats |-> IF s >= 2 THEN "ORE"
                                     ELSE IF turn % 2 = 0 THEN "BRICK" ELSE "LUMBER"]
       IN  /\ action \in Range(get_legal_actions)
           /\ step(action, {6}, {draws})
    /\ UNCHANGED twin

\* The actions submitted in the free turns: a road on each of the three free
\* paths and on a taken one, a city on seat 2's settlement, END_TURN.
RoadActions ==
    {BuildRoad(<<8, 9>>), BuildRoad(<<9, 10>>), BuildRoad(<<10, 11>>),
     BuildRoad(<<0, 1>>), BuildCity(2), EndTurn}

\* A free turn after the road script, on a roll of 6.
FreeRoadTurn ==
    /\ ~ret.done
    /\ turn >= RoadScriptEnd
    /\ turn < RoadScriptEnd + RoadTurns
    /\ \E action \in RoadActions : step(action, {6}, {OreYield})
    /\ UNCHANGED twin

NextRoads == ScriptedRoadTurn \/ FreeRoadTurn

\* A default game in which seats 0 and 1 race for the longest road.
SpecRoads == InitDefault /\ [][NextRoads]_vars

\* The number of turns explored in the building game.
BuildTurns == 8

\* The actions submitted in the building game: a settlement on the two
\* intersections next to the seeded ones, a city on each seeded settlement,
\* the first road, END_TURN.
BuildActions ==
    {BuildSettlement(4), BuildSettlement(5), BuildRoad(<<0, 1>>), EndTurn}
        \cup {BuildCity(c) : c \in 0 .. num_players - 1}

\* The yields of the building game: ore to every seat on even turns, grain
\* on odd ones.
BuildDraws(t) == [s \in Seats |-> IF t % 2 = 0 THEN "ORE" ELSE "GRAIN"]

\* A turn of the building game: one of BuildActions that get_legal_actions
\* offers, on a roll of 6.
FreeBuildTurn ==
    /\ ~ret.done
    /\ turn < BuildTurns
    /\ \E action \in BuildActions \cap Range(get_legal_actions) :
           step(action, {6}, {BuildDraws(turn)})
    /\ UNCHANGED twin

NextBuild == FreeBuildTurn

\* A default game in which the seats build settlements, cities and a road.
SpecBuild == InitDefault /\ [][NextBuild]_vars

\* The gifts by which seat 3 sheds its wool and grain in the scripted opening,
\* one every fourth turn.
GiftPlan ==
    <<GiftTrade(0, "wool"), GiftTrade(1, "wool"), GiftTrade(2, "grain"),
      GiftTrade(0, "grain")>>

\* The turn of the last scripted gift; it and the next turn roll 6 and yield ore.
LastGiftTurn == (Len(GiftPlan) - 1) * num_players

\* The turn at which the bank script ends: seat 3 is current and holds 4 ore
\* and nothing else.
BankScriptEnd == Len(GiftPlan) * num_players - 1

\* The number of free turns explored after the bank script.
BankTurns == 2

\* A scripted call: a queued seat makes the first discard offered; seat 3
\* makes its next gift on every fourth turn; every other turn is ended.  The
\* roll is 7 but on the turn of the last gift and the one after it.
ScriptedBankCall ==
    /\ ~ret.done
    /\ turn < BankScriptEnd
    /\ LET action == IF InDiscardPhase(pending_discard, current_player_index,
                                       players_needing_discard)
                     THEN get_legal_actions[1]
                     ELSE IF current_player_index = 3 /\ turn % num_players = 0
                     THEN GiftPlan[(turn \div num_players) + 1]
                     ELSE EndTurn
           roll == IF turn \in {LastGiftTurn, LastGiftTurn + 1} THEN 6 ELSE 7
       IN  /\ action \in Range(get_legal_actions)
           /\ step(action, {roll}, {OreYield})
    /\ UNCHANGED twin

\* A free call after the bank script, with any action get_legal_actions offers.
FreeBankCall ==
    /\ ~ret.done
    /\ turn >= BankScriptEnd
    /\ turn < BankScriptEnd + BankTurns
    /\ \E action \in Range(get_legal_actions) : step(action, Rolls, YieldDraws)
    /\ UNCHANGED twin

NextBank == ScriptedBankCall \/ FreeBankCall

\* A default game that brings seat 3 to hold 4 ore and nothing else.
SpecBank == InitDefault /\ [][NextBank]_vars

\* The actions of seat 0 in the scripted opening of the card game, one a
\* round: two roads take its brick and lumber, two gifts its wool.
CardPlan ==
    <<BuildRoad(<<0, 1>>), BuildRoad(<<1, 2>>), GiftTrade(3, "wool"), GiftTrade(3, "wool")>>

\* The turn at which the card script ends: seat 0 is current, every seat is
\* over the limit; seat 0 holds 10 grain and 10 ore, seat 1 mostly ore, seat 2
\* an even hand, seat 3 mostly lumber.
CardScriptEnd == Len(CardPlan) * num_players

\* The number of free turns explored after the card script.
CardTurns == 2

\* The resource the scripted yield of turn t gives seat s: grain and ore in
\* turn to seat 0, ore to seat 1, each resource in turn to seat 2, lumber to
\* seat 3.
CardDraws(t) ==
    [s \in Seats |->
        CASE s = 0 -> IF t % 2 = 0 THEN "GRAIN" ELSE "ORE"
          [] s = 1 -> "ORE"
          [] s = 2 -> RESOURCE_LIST[(t % Len(RESOURCE_LIST)) + 1]
          [] OTHER -> "LUMBER"]

\* A scripted turn: seat 0 makes its next move, the other seats end their
\* turn; the roll is 6.
ScriptedCardTurn ==
    /\ ~ret.done
    /\ turn < CardScriptEnd
    /\ LET action == IF current_player_index = 0
                     THEN CardPlan[(turn \div num_players) + 1]
                     ELSE EndTurn
       IN  /\ action \in Range(get_legal_actions)
           /\ step(action, {6}, {CardDraws(turn)})
    /\ UNCHANGED twin

\* The actions submitted in the free turns outside the discard phase.
CardActions == {BankTrade("ore", "grain"), GiftTrade(1, "lumber"), EndTurn}

\* A free call after the card script: in the discard phase any discard
\* offered or a discard of ProbeCount lumber, otherwise one of CardActions
\* that is legal; the dice give 6 or 7.
FreeCardCall ==
    /\ ~ret.done
    /\ turn >= CardScriptEnd
    /\ turn < CardScriptEnd + CardTurns
    /\ \E action \in (IF InDiscardPhase(pending_discard, current_player_index,
                                        players_needing_discard)
                      THEN Range(get_legal_actions) \cup {Discard("lumber", ProbeCount)}
                      ELSE Range(get_legal_actions) \cap CardActions) :
           step(action, Rolls, {OreYield})
    /\ UNCHANGED twin

NextCards == ScriptedCardTurn \/ FreeCardCall

\* A default game in which every seat is far over the limit when the robber
\* comes.
SpecCards == InitDefault /\ [][NextCards]_vars

\* The turn at which the fresh-board script ends: seat 0 is current and holds
\* 1 brick, 1 lumber, 1 wool, 1 grain and 2 ore; nothing has been built.
FreshScriptEnd == 8

\* The number of free turns explored after the fresh-board script.
FreshTurns == 2

\* A scripted call: a queued seat makes the first discard offered; seat 0
\* gives a wool on turn 1 and a grain on turn 4; every other turn is ended.
\* The roll is 7, but on turns 0 and 2 once no seat is over the limit: then
\* it is 6 and the yield gives seat 0 a lumber (turn 0) or a brick (turn 2)
\* and the other seats ore.
ScriptedFreshCall ==
    /\ ~ret.done
    /\ turn < FreshScriptEnd
    /\ LET action == IF InDiscardPhase(pending_discard, current_player_index,
                                       players_needing_discard)
                     THEN get_legal_actions[1]
                     ELSE IF current_player_index = 0 /\ turn = 1 THEN GiftTrade(1, "wool")
                     ELSE IF current_player_index = 0 /\ turn = 4 THEN GiftTrade(1, "grain")
                     ELSE EndTurn
           roll == IF turn \in {0, 2} /\ over_limit_seats(Game) = <<>> THEN 6 ELSE 7
           draws == [s \in Seats |-> IF s # 0 THEN "ORE"
                                     ELSE IF turn = 0 THEN "LUMBER" ELSE "BRICK"]
       IN  /\ action \in Range(get_legal_actions)
           /\ step(action, {roll}, {draws})
    /\ UNCHANGED twin

\* A free call after the fresh-board script, with any action offered.
FreeFreshCall ==
    /\ ~ret.done
    /\ turn >= FreshScriptEnd
    /\ turn < FreshScriptEnd + FreshTurns
    /\ \E action \in Range(get_legal_actions) : step(action, Rolls, YieldDraws)
    /\ UNCHANGED twin

NextFresh == ScriptedFreshCall \/ FreeFreshCall

\* A default game in which the seats shed cards before anything is built.
SpecFresh == InitDefault /\ [][NextFresh]_vars

-----------------------------------------------------------------------------
(* Two engines given the same draws and the same actions.  The first is    *)
(* stepped and twin records its placements, what start_game returned and,  *)
(* call by call, the action, the draws and what step returned; a second    *)
(* engine, constructed with the same parameters, is then started with the  *)
(* same placements and given the recorded actions and draws in order.      *)

\* The number of calls recorded.
TwinCalls == 3

\* The actions the first engine is given, legal or not.
TwinActions ==
    {BuildRoad(<<0, 1>>), GiftTrade(1, "ore"), Discard("lumber", StartResources), EndTurn}

\* An engine constructed and started; nothing is recorded yet.
InitTwin ==
    \E placement \in StartPlacements, vp \in TargetVps :
        /\ new_engine(vp, ShortGame)
        /\ start_game(placement)
        /\ twin = [placement |-> placement, start |-> ret, log |-> <<>>,
                   second |-> FALSE, pos |-> 0]

\* A step call on the first engine, recorded.
RecordedCall ==
    /\ ~twin.second
    /\ ~ret.done
    /\ Len(twin.log) < TwinCalls
    /\ \E action \in TwinActions, roll \in Rolls, draws \in YieldDraws :
           /\ step(action, {roll}, {draws})
           /\ twin' = [twin EXCEPT !.log =
                          Append(@, [action |-> action, roll |-> roll,
                                     draws |-> draws, ret |-> ret'])]

\* The second engine is started once the first has played its game or all
\* the calls recorded: its start_game draws the same placements.
SecondEngine ==
    /\ ~twin.second
    /\ ret.done \/ Len(twin.log) = TwinCalls
    /\ start_game_again(twin.placement)
    /\ twin' = [twin EXCEPT !.second = TRUE]

\* A step call on the second engine with the next recorded action and draws.
RepeatedCall ==
    /\ twin.second
    /\ twin.pos < Len(twin.log)
    /\ LET e == twin.log[twin.pos + 1]
       IN  step(e.action, {e.roll}, {e.draws})
    /\ twin' = [twin EXCEPT !.pos = @ + 1]

NextTwin == RecordedCall \/ SecondEngine \/ RepeatedCall

\* A short game played twice with the same draws and actions.
SpecTwin == InitTwin /\ [][NextTwin]_vars

-----------------------------------------------------------------------------
(* The decision-makers (agents.py).  A response of the text source is a    *)
(* record: form tells how the text carries its JSON document ("json": the  *)
(* text is the document; "fenced": the document inside markdown fences;    *)
(* "prose": an object holding "action_index" inside other text; "mention": *)
(* the words action_index: <digits> and no parsable object; "scalar": a    *)
(* JSON document that is not an object; "text": none of these), has_index  *)
(* and index give the document's "action_index" entry and error its        *)
(* "error" entry ("" when absent).  A JSON value is a record: t its type,  *)
(* n its number (a string's when it is made of digits, 0 or 1 for a        *)
(* boolean), digits whether a string is made of decimal digits.            *)

JsonInt(n) == [t |-> "int", n |-> n, digits |-> FALSE]

JsonStr(n, digits) == [t |-> "str", n |-> n, digits |-> digits]

JsonBool(b) == [t |-> "bool", n |-> IF b THEN 1 ELSE 0, digits |-> FALSE]

JsonFloat == [t |-> "float", n |-> 0, digits |-> FALSE]

JsonNull == [t |-> "null", n |-> 0, digits |-> FALSE]

\* What _extract_json returns when no document is found.
NoJson == [found |-> FALSE, object |-> FALSE, has_index |-> FALSE, index |-> JsonNull]

\* LLMJsonAgent._extract_json: the direct parse, the parse without fences,
\* the first {...} block holding "action_index", the digits after the word.
_extract_json(raw) ==
    CASE raw.form \in {"json", "fenced"} ->
             [found |-> TRUE, object |-> TRUE, has_index |-> raw.has_index, index |-> raw.index]
      [] raw.form = "scalar" ->
             [found |-> TRUE, object |-> FALSE, has_index |-> FALSE, index |-> JsonNull]
      [] raw.form = "prose" ->
             [found |-> TRUE, object |-> TRUE, has_index |-> TRUE, index |-> raw.index]
      [] raw.form = "mention" ->
             [found |-> TRUE, object |-> TRUE, has_index |-> TRUE, index |-> JsonInt(raw.index.n)]
      [] OTHER -> NoJson

\* choose_action, "Check for API failure marker": json.loads(raw) succeeds
\* and its "error" entry is "api_failed".
api_failed(raw) == raw.form = "json" /\ raw.error = "api_failed"

\* isinstance(idx, int) after "Handle string indices": bool is an int.
IsPythonInt(idx) == idx.t \in {"int", "bool"} \/ (idx.t = "str" /\ idx.digits)

\* The positions (from 0) of the actions of the given kinds, in list order.
IndicesOf(legal, kinds) ==
    SelectSeq(RangeList(Len(legal)), LAMBDA i : legal[i + 1].type \in kinds)

\* The fallback of choose_action as it would be if it left the length of
\* the list in chosen_idx.
fallback_index_past_end(state, legal, chosen_idx) == Len(legal)

\* The fallback of choose_action as it would be if it took the first
\* action of the list whatever its kind.
fallback_index_first(state, legal, chosen_idx) == 0

\* choose_action, "Smart fallback priority": the index the fallback leaves
\* in chosen_idx, which holds chosen_idx on entry.
fallback_index(state, legal, chosen_idx) ==
    LET discard_indices == IndicesOf(legal, {"DISCARD"})
        build_indices == IndicesOf(legal, {"BUILD_SETTLEMENT", "BUILD_CITY", "BUILD_ROAD"})
        bank_indices == IndicesOf(legal, {"BANK_TRADE"})
        end_indices == IndicesOf(legal, {"END_TURN"})
    IN  IF state.pending_discard
        THEN IF discard_indices # <<>> THEN discard_indices[1] ELSE chosen_idx
        ELSE IF build_indices # <<>> THEN build_indices[1]
        ELSE IF bank_indices # <<>> THEN bank_indices[1]
        ELSE IF end_indices # <<>> THEN end_indices[1]
        ELSE chosen_idx

\* LLMJsonAgent.choose_action after the text source answered raw: the action
\* returned and the last_decision_info recorded.
LLMJsonAgent_choose_action(state, legal, raw) ==
    LET parsed == _extract_json(raw)
        idx == parsed.index
        valid_index == /\ parsed.found /\ parsed.object /\ parsed.has_index
                       /\ IsPythonInt(idx)
                       /\ 0 <= idx.n /\ idx.n < Len(legal)
        parsed_idx == IF valid_index THEN idx.n ELSE 0
        used_fallback == ~valid_index \/ api_failed(raw)
        chosen_idx == IF used_fallback
                      THEN fallback_index(state, legal, parsed_idx)
                      ELSE parsed_idx
    IN  IF legal # <<>> /\ 0 <= chosen_idx /\ chosen_idx < Len(legal)
        THEN [action |-> legal[chosen_idx + 1],
              valid_index |-> valid_index /\ ~api_failed(raw),
              used_fallback |-> used_fallback,
              api_error |-> api_failed(raw)]
        ELSE [action |-> EndTurn,
              valid_index |-> FALSE,
              used_fallback |-> TRUE,
              api_error |-> api_failed(raw)]

\* RandomAgent.choose_action: rng.choice(legal_actions), for the draw i.
RandomAgent_choose_action(state, legal, i) ==
    [action |-> legal[i + 1],
     valid_index |-> TRUE, used_fallback |-> FALSE, api_error |-> FALSE]

\* A response of the given form whose document has the given entries.
Response(form, has_index, index, error) ==
    [form |-> form, has_index |-> has_index, index |-> index, error |-> error]

\* An index past the end of every list explored.
FarIndex == 99

\* The "action_index" entries explored: in range, negative, past the end, a
\* string of digits, another string, a float, a boolean, null.
IndexValues ==
    {JsonInt(0), JsonInt(1), JsonInt(-1), JsonInt(FarIndex),
     JsonStr(1, TRUE), JsonStr(0, FALSE), JsonFloat, JsonBool(TRUE), JsonNull}

\* The responses of the text source explored: documents with each entry, an
\* empty object, the API-failure marker with and without an index, fenced and
\* embedded documents, a bare mention of the index, a scalar, plain text.
Responses ==
    {Response("json", TRUE, v, "") : v \in IndexValues}
        \cup {Response("json", FALSE, JsonNull, ""),
              Response("json", FALSE, JsonNull, "api_failed"),
              Response("json", TRUE, JsonInt(1), "api_failed"),
              Response("fenced", TRUE, JsonInt(1), ""),
              Response("fenced", TRUE, JsonInt(1), "api_failed"),
              Response("prose", TRUE, JsonInt(0), ""),
              Response("prose", TRUE, JsonInt(FarIndex), ""),
              Response("mention", TRUE, JsonInt(1), ""),
              Response("mention", TRUE, JsonInt(FarIndex), ""),
              Response("scalar", FALSE, JsonNull, ""),
              Response("text", FALSE, JsonNull, "")}

\* main.py: seats 0..2 are LLMJsonAgent, seat 3 is a RandomAgent.
LLMSeats == {0, 1, 2}

\* The number of turns explored in the game the agents play.
AgentTurns == 6

\* The turns of the game the agents play on which a 7 may be rolled.
SevenTurns == {0, 5}

\* The rolls of the game the agents play: 6, or 7 on the turns of SevenTurns.
AgentRolls == IF turn \in SevenTurns THEN Rolls ELSE {6}

\* The draws of rng.choice explored for the RandomAgent: the first and the
\* last position of the list.
RandomDraws(legal) == {0, Len(legal) - 1}

\* An iteration of play_single_game's loop in which an LLMJsonAgent chooses.
LLMTurn ==
    /\ ~ret.done
    /\ turn < AgentTurns
    /\ get_legal_actions # <<>>
    /\ ret.state.current_player_index \in LLMSeats
    /\ \E raw \in Responses :
           step(LLMJsonAgent_choose_action(ret.state, get_legal_actions, raw).action,
                AgentRolls, {OreYield})
    /\ UNCHANGED twin

\* An iteration of play_single_game's loop in which the RandomAgent chooses.
RandomTurn ==
    /\ ~ret.done
    /\ turn < AgentTurns
    /\ get_legal_actions # <<>>
    /\ ret.state.current_player_index \notin LLMSeats
    /\ \E i \in RandomDraws(get_legal_actions) :
           step(RandomAgent_choose_action(ret.state, get_legal_actions, i).action,
                AgentRolls, {OreYield})
    /\ UNCHANGED twin

NextAgents == LLMTurn \/ RandomTurn

\* A default game played by the agents of main.py.
SpecAgents == InitDefault /\ [][NextAgents]_vars

-----------------------------------------------------------------------------
(* The last call, read from call, ret and prev.                            *)

\* A step call has been made.
Called == call # NoCall

\* The last call found the engine in the discard phase with a queued seat.
PrevInDiscard ==
    InDiscardPhase(prev.pending_discard, prev.current_player_index,
                   prev.players_needing_discard)

\* The last call rolled the dice.
Rolled == "roll" \in DOMAIN ret.info

\* The last call returned from the discard branch.
DiscardCall == Called /\ ~Rolled

\* The last call was pre-empted by a 7: it returned before "Apply action".
PreEmpted == Called /\ Rolled /\ "action_succeeded" \notin DOMAIN ret.info

\* The last call played a turn to its end.
TurnPlayed == Called /\ "action_succeeded" \in DOMAIN ret.info

\* The last call reported a failed action.
Failed == "action_failed" \in DOMAIN ret.info

\* The seat that was current when the last call was made.
Actor == prev.current_player_index

\* The game data the last call found.
PrevGame == [intersections |-> prev.intersections, paths |-> prev.paths,
             resources |-> prev.resources, roads |-> prev.roads]

\* The list get_legal_actions would have returned before the last call.
PrevLegal ==
    legal_actions(PrevGame, prev.current_player_index, prev.pending_discard,
                  prev.players_needing_discard)

\* The board and the road sets are as the last call found them.
BoardKept ==
    /\ intersections = prev.intersections
    /\ paths = prev.paths
    /\ roads = prev.roads

\* after is before plus one unit of one resource.
OneUnitMore(before, after) ==
    \E r \in Resource : after = [before EXCEPT ![r] = @ + 1]

\* The number of cards a cost asks for.
CostTotal(cost) == SumSeq(MapSeq(RESOURCE_LIST, LAMBDA r : IF r \in DOMAIN cost THEN cost[r] ELSE 0))

\* How many cards of cost the holding res lacks.
Shortfall(res, cost) ==
    SumSeq(MapSeq(RESOURCE_LIST,
                  LAMBDA r : IF r \in DOMAIN cost /\ res[r] < cost[r] THEN cost[r] - res[r] ELSE 0))

BuildKinds == {"BUILD_SETTLEMENT", "BUILD_ROAD", "BUILD_CITY"}

TradeKinds == {"TRADE", "BANK_TRADE"}

-----------------------------------------------------------------------------
(* C1.  Every path has at most one owner (no path is in the road sets of   *)
(* two seats, and the board names one), every intersection at most one     *)
(* building, and no call replaces the owner of an intersection or of a     *)
(* path that was already owned when the call was made.                     *)
C1_OwnersExclusive ==
    /\ \A p \in DOMAIN paths : Cardinality({s \in Seats : p \in roads[s]}) <= 1
    /\ \A c \in DOMAIN intersections :
           Cardinality({s \in Seats : intersections[c].owner = s}) <= 1
    /\ \A c \in DOMAIN intersections :
           prev.intersections[c] # NoBuilding
               => intersections[c].owner = prev.intersections[c].owner
    /\ \A p \in DOMAIN paths :
           prev.paths[p] # None => paths[p] = prev.paths[p]

\* A turn was played with a BuildRoad on a path another seat owned.
C1_Witness ==
    /\ TurnPlayed
    /\ call.type = "BUILD_ROAD"
    /\ call.path \in DOMAIN prev.paths
    /\ prev.paths[call.path] \notin {None, Actor}
    /\ paths[call.path] = prev.paths[call.path]

(* C2.  Every seat's count of every resource is >= 0, whatever actions     *)
(* were submitted.                                                         *)
C2_HoldingsNonNegative ==
    \A s \in Seats : \A r \in Resource : resources[s][r] >= 0

\* A discard of more than the seat held was applied and took what it held.
C2_Witness ==
    /\ DiscardCall
    /\ call.type = "DISCARD"
    /\ IsResourceName(call.resource)
    /\ prev.resources[Actor][name_upper(call.resource)] > 0
    /\ call.count > prev.resources[Actor][name_upper(call.resource)]
    /\ resources[Actor][name_upper(call.resource)] = 0

(* C3.  While pending_discard is true, get_legal_actions returns no build  *)
(* and no trade action.                                                    *)
C3_DiscardExclusive ==
    pending_discard =>
        \A a \in Range(get_legal_actions) : a.type \notin BuildKinds \cup TradeKinds

(* C4.  get_legal_actions is never empty: outside the discard phase it     *)
(* contains END_TURN, inside it contains a Discard or END_TURN.            *)
C4_NeverEmpty ==
    /\ get_legal_actions # <<>>
    /\ IF InDiscardPhase(pending_discard, current_player_index, players_needing_discard)
       THEN \E a \in Range(get_legal_actions) : a.type \in {"DISCARD", "END_TURN"}
       ELSE EndTurn \in Range(get_legal_actions)

\* Outside the discard phase, a seat that can afford no build still has END_TURN.
C4_Witness ==
    /\ Called
    /\ ~InDiscardPhase(pending_discard, current_player_index, players_needing_discard)
    /\ ~has_resources(resources[current_player_index], SETTLEMENT_COST)
    /\ ~has_resources(resources[current_player_index], ROAD_COST)
    /\ ~has_resources(resources[current_player_index], CITY_COST)
    /\ EndTurn \in Range(get_legal_actions)

\* The seats that held more than 7 cards when the last call was made.
OverLimitBefore == {s \in Seats : total_cards(prev.resources[s]) > DiscardLimit}

\* The last call was made in Normal state and rolled a 7 with a seat over the limit.
RobberWithOverLimit ==
    /\ Called
    /\ ~PrevInDiscard
    /\ Rolled
    /\ ret.info.roll = 7
    /\ OverLimitBefore # {}

(* C5.  A call in Normal state that rolls 7 while some seat holds more     *)
(* than 7 cards enters the discard phase: the queue is the set of those    *)
(* seats in ascending order, the current seat is its front, the returned   *)
(* snapshot has pending_discard true, done is false, info has no winner.   *)
C5_EntersDiscarding ==
    RobberWithOverLimit =>
        /\ Range(players_needing_discard) = OverLimitBefore
        /\ \A i \in 1 .. Len(players_needing_discard) :
               \A j \in 1 .. Len(players_needing_discard) :
                   i < j => players_needing_discard[i] < players_needing_discard[j]
        /\ current_player_index = players_needing_discard[1]
        /\ pending_discard
        /\ ret.state.pending_discard
        /\ ret.state.current_player_index = players_needing_discard[1]
        /\ ~ret.done
        /\ "winner_index" \notin DOMAIN ret.info

\* Such a call with a seat at exactly 7 cards, which stays out of the queue.
C5_Witness ==
    /\ RobberWithOverLimit
    /\ \E s \in Seats : total_cards(prev.resources[s]) = DiscardLimit
    /\ Len(players_needing_discard) < num_players

(* C6.  A call pre-empted by a 7 with over-limit seats applies nothing:    *)
(* the board, every holding, the road sets, the achievement owners and     *)
(* the turn counter are as the call found them.                            *)
C6_PreEmptedAppliesNothing ==
    PreEmpted =>
        /\ BoardKept
        /\ resources = prev.resources
        /\ longest_road_owner = prev.longest_road_owner
        /\ largest_army_owner = prev.largest_army_owner
        /\ turn = prev.turn

\* A build the seat could afford on a free path was submitted and dropped.
C6_Witness ==
    /\ PreEmpted
    /\ call.type = "BUILD_ROAD"
    /\ call \in Range(PrevLegal)
    /\ paths[call.path] = None

(* C7.  A call made in the discard phase by the queued seat with a legal   *)
(* action rolls no dice and keeps the turn counter; the seat leaves the    *)
(* queue; if the queue is not empty its front becomes current and          *)
(* pending_discard stays true, else pending_discard is cleared; done is    *)
(* false.                                                                  *)
C7_DiscardStep ==
    (Called /\ PrevInDiscard /\ call \in Range(PrevLegal)) =>
        /\ ~Rolled
        /\ turn = prev.turn
        /\ players_needing_discard =
               SelectSeq(prev.players_needing_discard, LAMBDA i : i # Actor)
        /\ Len(players_needing_discard) = Len(prev.players_needing_discard) - 1
        /\ players_needing_discard # <<>> =>
               current_player_index = players_needing_discard[1] /\ pending_discard
        /\ players_needing_discard = <<>> => ~pending_discard
        /\ ~ret.done
        /\ ret.state.pending_discard = pending_discard

\* The last queued seat has discarded and the phase is over.
C7_Witness ==
    /\ Called
    /\ PrevInDiscard
    /\ call \in Range(PrevLegal)
    /\ call.type = "DISCARD"
    /\ players_needing_discard = <<>>
    /\ ~pending_discard

-----------------------------------------------------------------------------
\* Every holding is as the last call found it, or one unit larger (a yield).
HoldingsKeptUpToYield ==
    \A s \in Seats :
        resources[s] = prev.resources[s] \/ OneUnitMore(prev.resources[s], resources[s])

(* C8.  step rejects every action that is not in the list                  *)
(* get_legal_actions returns for the state it is called in: the board is   *)
(* unchanged and no holding changes but by a yield.  In particular a       *)
(* build, a gift trade or a bank trade passed in the discard phase changes *)
(* neither the board nor any holding and does not advance the turn.        *)
C8_IllegalActionRejected ==
    (Called /\ call \notin Range(PrevLegal)) =>
        /\ BoardKept
        /\ HoldingsKeptUpToYield
        /\ (PrevInDiscard /\ call.type \in BuildKinds \cup TradeKinds) =>
               resources = prev.resources /\ turn = prev.turn

\* The last call took the Normal path and played the turn to its end.
NormalTurn == TurnPlayed /\ ~PrevInDiscard

\* The cost of the build the last call asked for.
CallCost ==
    CASE call.type = "BUILD_SETTLEMENT" -> SETTLEMENT_COST
      [] call.type = "BUILD_ROAD" -> ROAD_COST
      [] call.type = "BUILD_CITY" -> CITY_COST

\* The last call named a target the board cannot take.
InvalidTarget ==
    CASE call.type = "BUILD_SETTLEMENT" ->
             \/ call.coords \notin DOMAIN prev.intersections
             \/ prev.intersections[call.coords] # NoBuilding
      [] call.type = "BUILD_ROAD" ->
             \/ call.path \notin DOMAIN prev.paths
             \/ prev.paths[call.path] # None
      [] call.type = "BUILD_CITY" ->
             \/ call.coords \notin DOMAIN prev.intersections
             \/ prev.intersections[call.coords] # Building(Actor, "SETTLEMENT")
      [] OTHER -> FALSE

\* The seat could not pay for the build whatever the yield gave it.
CannotPay ==
    /\ call.type \in BuildKinds
    /\ IF ret.info.roll = 7
       THEN ~has_resources(prev.resources[Actor], CallCost)
       ELSE Shortfall(prev.resources[Actor], CallCost) >= 2

(* C9.  In a Normal turn an action that fails validation (a target that    *)
(* does not exist, is occupied or is not the seat's own settlement, or a   *)
(* cost the seat cannot pay) is reported and nothing else: step returns,   *)
(* the board and the road sets are unchanged, the holdings are those the   *)
(* yield left (nothing is paid), info has action_failed true and           *)
(* action_succeeded false, and the turn counter and the current seat       *)
(* advance.                                                                *)
C9_FailedActionFrame ==
    NormalTurn =>
        /\ (InvalidTarget \/ CannotPay) => Failed
        /\ Failed =>
               /\ BoardKept
               /\ IF ret.info.roll = 7
                  THEN resources = prev.resources
                  ELSE \A s \in Seats : OneUnitMore(prev.resources[s], resources[s])
               /\ ret.info.action_failed = TRUE
               /\ ret.info.action_succeeded = FALSE
               /\ "action_error" \in DOMAIN ret.info
               /\ turn = prev.turn + 1
               /\ current_player_index = (Actor + 1) % num_players
               /\ ret.state.turn = turn
               /\ ret.state.current_player_index = current_player_index

\* A settlement on a free intersection failed for want of one resource while
\* the seat held others of the cost.
C9_Witness ==
    /\ NormalTurn
    /\ Failed
    /\ call.type = "BUILD_SETTLEMENT"
    /\ ret.info.action_error = "Insufficient resources for settlement"
    /\ \E r \in DOMAIN SETTLEMENT_COST : resources[Actor][r] >= SETTLEMENT_COST[r]

\* The cards seat s holds more than when the last call was made.
Gained(s) == total_cards(resources[s]) - total_cards(prev.resources[s])

\* The cards the applied action gives seat s (what it takes, negative).
Net(s) ==
    IF ~ret.info.action_succeeded
    THEN 0
    ELSE CASE call.type = "BUILD_SETTLEMENT" ->
                  IF s = Actor THEN 0 - CostTotal(SETTLEMENT_COST) ELSE 0
           [] call.type = "BUILD_ROAD" ->
                  IF s = Actor THEN 0 - CostTotal(ROAD_COST) ELSE 0
           [] call.type = "BUILD_CITY" ->
                  IF s = Actor THEN 0 - CostTotal(CITY_COST) ELSE 0
           [] call.type = "BANK_TRADE" ->
                  IF s = Actor THEN 1 - BankRate ELSE 0
           [] call.type = "TRADE" ->
                  (IF s = Actor THEN 0 - 1 ELSE 0)
                      + (IF s = PlayerAt(call.to_player) THEN 1 ELSE 0)
           [] OTHER -> 0

\* The applied action touched the holding of seat s.
Touched(s) ==
    /\ ret.info.action_succeeded
    /\ \/ s = Actor /\ call.type \in BuildKinds \cup TradeKinds
       \/ call.type = "TRADE" /\ s = PlayerAt(call.to_player)

\* Every seat was given k units (k is 0 or 1) and then the action was applied.
YieldThenAction(k) ==
    \A s \in Seats :
        /\ Gained(s) = k + Net(s)
        /\ ~Touched(s) =>
               IF k = 1
               THEN OneUnitMore(prev.resources[s], resources[s])
               ELSE resources[s] = prev.resources[s]

-----------------------------------------------------------------------------
(* C11.  Every call that plays a turn to its end (it is no discard step    *)
(* and is not pre-empted by a 7) increases the turn counter by exactly 1   *)
(* and makes seat (seat + 1) mod 4 current, whether the action succeeded   *)
(* or failed; the current seat is always one of 0..3.                      *)
C11_TurnAdvances ==
    /\ current_player_index \in Seats
    /\ ret.state.current_player_index = current_player_index
    /\ TurnPlayed =>
           /\ turn = prev.turn + 1
           /\ ret.state.turn = turn
           /\ current_player_index = (Actor + 1) % num_players

\* Seat 3 played a Normal turn with an action that failed, and seat 0 is next.
C11_Witness ==
    /\ NormalTurn
    /\ Failed
    /\ Actor = num_players - 1
    /\ current_player_index = 0
    /\ turn = prev.turn + 1

\* The intersections on which seat s owns a building of the given type.
Owned(s, building_type) ==
    {c \in DOMAIN intersections : intersections[c] = Building(s, building_type)}

\* The victory points of seat s on the live board.
LiveVictoryPoints(s) ==
    Cardinality(Owned(s, "SETTLEMENT")) + 2 * Cardinality(Owned(s, "CITY"))
        + (IF longest_road_owner = s THEN 2 ELSE 0)
        + (IF largest_army_owner = s THEN 2 ELSE 0)

(* C12.  In every snapshot start_game or step returns, victory_points[s]   *)
(* is the number of settlements seat s owns, plus 2 for each city it owns, *)
(* plus 2 if it is the longest-road owner, plus 2 if it is the             *)
(* largest-army owner, on the board as it is when the call returns.        *)
C12_VictoryPoints ==
    /\ DOMAIN ret.state.victory_points = Seats
    /\ \A s \in Seats : ret.state.victory_points[s] = LiveVictoryPoints(s)
    /\ ret.state.longest_road_owner = longest_road_owner
    /\ ret.state.largest_army_owner = largest_army_owner

\* After a played turn a seat owns a city and another holds the longest road:
\* the snapshot counts 2 for the city and 1 + 2 for the road owner.
C12_Witness ==
    /\ TurnPlayed
    /\ longest_road_owner # None
    /\ \E s \in Seats :
           /\ s # longest_road_owner
           /\ Owned(s, "CITY") # {}
           /\ ret.state.victory_points[s] = 2
    /\ ret.state.victory_points[longest_road_owner] = 3

\* The largest victory-point count of the returned snapshot.
BestVp ==
    CHOOSE v \in {ret.state.victory_points[s] : s \in Seats} :
        \A s \in Seats : ret.state.victory_points[s] <= v

\* The seats at that maximum.
Leaders == {s \in Seats : ret.state.victory_points[s] = BestVp}

\* The last call reported a winner.
HasWinner == "winner_index" \in DOMAIN ret.info

(* C13.  When a played turn ends with max(victory points) >= target_vp,    *)
(* info.winner_index is the lowest seat index whose victory points equal   *)
(* that maximum, also when other seats tie; when the maximum is below      *)
(* target_vp, info has no winner_index.                                    *)
C13_WinnerIsLowestLeader ==
    TurnPlayed =>
        IF BestVp >= target_vp
        THEN /\ HasWinner
             /\ ret.info.winner_index \in Leaders
             /\ \A s \in Leaders : ret.info.winner_index <= s
        ELSE ~HasWinner

\* Several seats tie at the maximum, which meets the target, and the lowest wins.
C13_Witness ==
    /\ TurnPlayed
    /\ HasWinner
    /\ Cardinality(Leaders) > 1
    /\ \A s \in Leaders : ret.info.winner_index <= s

\* After the last call some seat is at or above the target, or the turn
\* counter is at or above the limit.
TargetOrLimitReached == BestVp >= target_vp \/ turn >= max_turns

\* A played turn returns done exactly when the target or the limit is reached,
\* and reports a winner exactly when it is done and a seat is at the target.
DoneIffTargetOrLimit ==
    TurnPlayed =>
        /\ ret.done <=> TargetOrLimitReached
        /\ HasWinner <=> (ret.done /\ BestVp >= target_vp)

(* C14, as stated.  A call that plays a turn returns done=true if and only *)
(* if some seat's victory points are >= target_vp or the turn counter is   *)
(* >= max_turns, and info has winner_index exactly when done is true and a *)
(* winner exists; so while the game has not returned done, every seat is   *)
(* below target_vp and the turn counter is below max_turns.                *)
C14_DoneIff ==
    /\ DoneIffTargetOrLimit
    /\ ~ret.done => ~TargetOrLimitReached

(* C14, amended.  The same, the consequence holding from the first played  *)
(* turn on: before it (after start_game, in a discard step or a call       *)
(* pre-empted by a 7 at turn 0) nothing has tested the target, and a       *)
(* target the starting settlements already meet is not yet reported.       *)
C14_DoneIffOncePlayed ==
    /\ DoneIffTargetOrLimit
    /\ (~ret.done /\ turn >= 1) => ~TargetOrLimitReached

\* A played turn ended the game at the turn limit with every seat below the
\* target: done without a winner.
C14_Witness ==
    /\ TurnPlayed
    /\ ret.done
    /\ ~HasWinner
    /\ turn = max_turns
    /\ BestVp < target_vp

\* The number of roads seat s owns.
RoadCount(s) == Cardinality(roads[s])

(* C15.  The longest-road owner is none as long as no seat holds 5 roads   *)
(* (roads are never lost); otherwise it is a seat with at least 5 roads    *)
(* and as many as any seat, and a call replaces an owner only by a seat    *)
(* with strictly more roads: a tie does not displace the owner.            *)
C15_LongestRoad ==
    /\ (\A s \in Seats : RoadCount(s) < LongestRoadMin) => longest_road_owner = None
    /\ (\E s \in Seats : RoadCount(s) >= LongestRoadMin) =>
           /\ longest_road_owner \in Seats
           /\ RoadCount(longest_road_owner) >= LongestRoadMin
           /\ \A s \in Seats : RoadCount(s) <= RoadCount(longest_road_owner)
    /\ \A s \in Seats : prev.roads[s] \subseteq roads[s]
    /\ (prev.longest_road_owner # None /\ longest_road_owner # prev.longest_road_owner) =>
           /\ longest_road_owner \in Seats
           /\ RoadCount(longest_road_owner) > RoadCount(prev.longest_road_owner)

\* Seat 1 has just built its fifth road and ties with the owner, seat 0, who
\* keeps the longest road.
C15_Witness ==
    /\ TurnPlayed
    /\ call.type = "BUILD_ROAD"
    /\ ret.info.action_succeeded
    /\ Actor = 1
    /\ prev.longest_road_owner = 0
    /\ longest_road_owner = 0
    /\ RoadCount(0) = LongestRoadMin
    /\ RoadCount(1) = LongestRoadMin

(* C16.  The largest-army owner is none and every seat's knights_played is *)
(* 0 in every state, so no snapshot gives a seat the largest-army bonus.   *)
C16_NoLargestArmy ==
    /\ largest_army_owner = None
    /\ \A s \in Seats : knights_played[s] = 0
    /\ ret.state.largest_army_owner = None
    /\ \A s \in Seats :
           ret.state.victory_points[s] =
               Cardinality(Owned(s, "SETTLEMENT")) + 2 * Cardinality(Owned(s, "CITY"))
                   + (IF longest_road_owner = s THEN 2 ELSE 0)

\* A played turn has just awarded the longest road, and the largest army is
\* still without an owner.
C16_Witness ==
    /\ TurnPlayed
    /\ prev.longest_road_owner = None
    /\ longest_road_owner # None
    /\ largest_army_owner = None

\* The holdings the roll of the last call can have left seat s: the holding
\* it had, with one unit more of some resource unless the roll was 7.
AfterYield(s) ==
    IF ret.info.roll = 7
    THEN {prev.resources[s]}
    ELSE {[prev.resources[s] EXCEPT ![r] = @ + 1] : r \in Resource}

\* The holding h of seat s after n units of resource r went from seat giver to
\* seat recipient.
Moved(h, s, r, n, giver, recipient) ==
    LET taken == IF s = giver THEN [h EXCEPT ![r] = @ - n] ELSE h
    IN  IF s = recipient THEN [taken EXCEPT ![r] = @ + n] ELSE taken

\* The cards all seats hold together, now and when the last call was made.
AllCards == SumSeq(MapSeq(RangeList(num_players), LAMBDA s : total_cards(resources[s])))
AllCardsBefore ==
    SumSeq(MapSeq(RangeList(num_players), LAMBDA s : total_cards(prev.resources[s])))

\* The last call played a turn with a gift of an existing resource to an
\* existing seat.
GiftPlayed ==
    /\ TurnPlayed
    /\ call.type = "TRADE"
    /\ IsResourceName(call.resource)
    /\ PlayerAt(call.to_player) # None

(* C17.  A gift that is applied takes exactly one unit of the resource     *)
(* from the giver and gives exactly one to the recipient, on top of what   *)
(* the roll yielded, so that the transfer leaves the total number of cards *)
(* unchanged; a gift whose giver holds none of the resource when it is     *)
(* applied fails and changes no holding.                                   *)
C17_GiftTransfer ==
    GiftPlayed =>
        LET r == name_upper(call.resource)
            recipient == PlayerAt(call.to_player)
        IN  IF "is_trade" \in DOMAIN ret.info
            THEN /\ ret.info.action_succeeded
                 /\ \A s \in Seats :
                        \E h \in AfterYield(s) :
                            /\ s = Actor => h[r] >= 1
                            /\ resources[s] = Moved(h, s, r, 1, Actor, recipient)
                 /\ AllCards = AllCardsBefore
                        + (IF ret.info.roll = 7 THEN 0 ELSE num_players)
            ELSE /\ Failed
                 /\ ~ret.info.action_succeeded
                 /\ resources[Actor][r] = 0
                 /\ \A s \in Seats : resources[s] \in AfterYield(s)

\* A gift from a seat to another was applied.
C17_Witness ==
    /\ GiftPlayed
    /\ "is_trade" \in DOMAIN ret.info
    /\ PlayerAt(call.to_player) # Actor
    /\ resources[Actor][name_upper(call.resource)]
           < prev.resources[Actor][name_upper(call.resource)]

\* A gift failed because the giver held none of the resource.
C17_WitnessEmptyHanded ==
    /\ GiftPlayed
    /\ Failed
    /\ resources[Actor][name_upper(call.resource)] = 0

\* The last call played a turn with a bank trade of existing resources.
BankTradePlayed ==
    /\ TurnPlayed
    /\ call.type = "BANK_TRADE"
    /\ IsResourceName(call.give)
    /\ IsResourceName(call.receive)

\* The holding h after a bank trade of give for receive.
Exchanged(h, give, receive) ==
    LET taken == [h EXCEPT ![give] = @ - BankRate]
    IN  [taken EXCEPT ![receive] = @ + 1]

(* C18.  A bank trade that is applied takes exactly 4 units of the give    *)
(* resource from the current seat and gives it exactly 1 unit of the       *)
(* receive resource, on top of what the roll yielded, and touches no other *)
(* seat; with fewer than 4 units of the give resource when it is applied   *)
(* it fails and changes no holding.                                        *)
C18_BankTrade ==
    BankTradePlayed =>
        LET give == name_upper(call.give)
            receive == name_upper(call.receive)
        IN  IF "is_bank_trade" \in DOMAIN ret.info
            THEN /\ ret.info.action_succeeded
                 /\ \A s \in Seats :
                        \E h \in AfterYield(s) :
                            IF s = Actor
                            THEN /\ h[give] >= BankRate
                                 /\ resources[s] = Exchanged(h, give, receive)
                            ELSE resources[s] = h
            ELSE /\ Failed
                 /\ ~ret.info.action_succeeded
                 /\ resources[Actor][give] < BankRate
                 /\ \A s \in Seats : resources[s] \in AfterYield(s)

\* A bank trade was applied.
C18_Witness ==
    /\ BankTradePlayed
    /\ "is_bank_trade" \in DOMAIN ret.info
    /\ resources[Actor][name_upper(call.receive)]
           > prev.resources[Actor][name_upper(call.receive)]

\* A bank trade failed for want of the fourth card.
C18_WitnessShort ==
    /\ BankTradePlayed
    /\ Failed
    /\ resources[Actor][name_upper(call.give)] = BankRate - 1

\* The holding of scenario B: exactly 4 ore and nothing else.
OreOnly == [r \in Resource |-> IF r = "ORE" THEN 4 ELSE 0]

\* The bank trades get_legal_actions offers, in its order.
BankTradesOffered == SelectSeq(get_legal_actions, LAMBDA a : a.type = "BANK_TRADE")

\* In scenario B get_legal_actions offers exactly four bank trades, ore for
\* each of the other four resources.
ScenarioBOffers ==
    (~pending_discard /\ resources[current_player_index] = OreOnly) =>
        /\ Len(BankTradesOffered) = 4
        /\ Range(BankTradesOffered) =
               {BankTrade("ore", name_lower(r)) : r \in Resource \ {"ORE"}}

\* The last call passed step one of the bank trades offered in scenario B.
ScenarioBCall ==
    /\ Called
    /\ ~prev.pending_discard
    /\ prev.resources[Actor] = OreOnly
    /\ call.type = "BANK_TRADE"
    /\ call \in Range(PrevLegal)

(* C19, as stated.  A current seat holding exactly 4 ore and nothing else  *)
(* is offered exactly 4 bank trades, ore for each other resource, and      *)
(* after one of them is passed to step the seat's ore is 0 and its count   *)
(* of the target resource is 1 higher than before the call.                *)
C19_ScenarioB ==
    /\ ScenarioBOffers
    /\ ScenarioBCall =>
           /\ resources[Actor]["ORE"] = 0
           /\ resources[Actor][name_upper(call.receive)] =
                  prev.resources[Actor][name_upper(call.receive)] + 1

(* C19, amended.  The offer is as stated.  After one of the trades is      *)
(* passed to step in a call that plays the turn, the trade is applied to   *)
(* the holding the roll left: the seat has 4 ore less and 1 of the target  *)
(* more than after the yield, so that its ore is 0 and the target 1 higher *)
(* than before the call only when the roll was 7 or the yield gave the     *)
(* seat a third resource; a yield of ore leaves 1 ore, a yield of the      *)
(* target leaves the target 2 higher.                                      *)
C19_ScenarioBAfterRoll ==
    /\ ScenarioBOffers
    /\ (ScenarioBCall /\ TurnPlayed) =>
           /\ "is_bank_trade" \in DOMAIN ret.info
           /\ ret.info.action_succeeded
           /\ \E h \in AfterYield(Actor) :
                  resources[Actor] = Exchanged(h, "ORE", name_upper(call.receive))
           /\ resources[Actor]["ORE"] \in {0, 1}
           /\ resources[Actor][name_upper(call.receive)] \in {1, 2}

\* One of the four trades of scenario B was applied.
C19_Witness ==
    /\ ScenarioBCall
    /\ Cardinality(Range(PrevLegal) \cap {BankTrade("ore", name_lower(r)) : r \in Resource}) = 4
    /\ "is_bank_trade" \in DOMAIN ret.info

\* The engine is in the discard phase and the current seat is queued.
Discarding == InDiscardPhase(pending_discard, current_player_index, players_needing_discard)

\* The number of cards the current seat is asked to discard: half its total.
Required == total_cards(resources[current_player_index]) \div 2

\* The resources the current seat holds at least Required of.
Sufficient == {r \in Resource : resources[current_player_index][r] >= Required}

(* C21.  For a queued current seat with total T and D = T div 2 the legal  *)
(* list is: EndTurn alone if D = 0; otherwise one Discard(resource, D) for *)
(* each resource the seat holds at least D of and nothing else; and if no  *)
(* resource reaches D, exactly one Discard of a most-held resource with    *)
(* count min(D, that holding).                                             *)
C21_DiscardOffers ==
    Discarding =>
        LET h == resources[current_player_index]
            list == get_legal_actions
        IN  IF Required = 0
            THEN list = <<EndTurn>>
            ELSE IF Sufficient # {}
            THEN /\ Len(list) = Cardinality(Sufficient)
                 /\ Range(list) = {Discard(name_lower(r), Required) : r \in Sufficient}
            ELSE /\ Len(list) = 1
                 /\ list[1].type = "DISCARD"
                 /\ \E r \in Resource :
                        /\ \A q \in Resource : h[q] <= h[r]
                        /\ list[1].resource = name_lower(r)
                        /\ list[1].count = (IF Required < h[r] THEN Required ELSE h[r])

\* A queued seat that holds half its cards in each of two resources is
\* offered the two discards.
C21_Witness ==
    /\ Discarding
    /\ Cardinality(Sufficient) = 2
    /\ Len(get_legal_actions) = 2

\* A queued seat no resource of which reaches half its total.
C21_WitnessBestEffort ==
    /\ Discarding
    /\ Sufficient = {}
    /\ Required > 0

\* The last call was made in the discard phase by the queued seat with an
\* action get_legal_actions offered.
LegalDiscardCall == Called /\ PrevInDiscard /\ call \in Range(PrevLegal)

(* C22.  Every seat over the limit when the 7 was rolled has shed half its *)
(* cards by the time the discard phase ends: a queued seat keeps its       *)
(* holding until its own discard call, and that call (with an action       *)
(* get_legal_actions offers) lowers its total by floor(T/2), T its total   *)
(* when the phase began.                                                   *)
C22_ShedsHalf ==
    LegalDiscardCall =>
        /\ \A s \in Range(players_needing_discard) : resources[s] = prev.resources[s]
        /\ total_cards(resources[Actor]) =
               total_cards(prev.resources[Actor]) - (total_cards(prev.resources[Actor]) \div 2)

\* The list q is in strictly ascending order.
Ascending(q) == \A i, j \in 1 .. Len(q) : i < j => q[i] < q[j]

(* C23.  Within a discard phase the queue is in ascending seat order and   *)
(* its front is the current seat; every call made while seats are queued   *)
(* is the one discard of the front seat, which rolls no dice, keeps the    *)
(* turn and removes that seat from the queue for good, so that no seat     *)
(* outside the queue acts until the queue is empty.                        *)
C23_OneDiscardEach ==
    /\ Ascending(players_needing_discard)
    /\ (pending_discard /\ players_needing_discard # <<>>) =>
           current_player_index = players_needing_discard[1]
    /\ (Called /\ prev.pending_discard /\ prev.players_needing_discard # <<>>) =>
           /\ Actor = prev.players_needing_discard[1]
           /\ call.type = "DISCARD"
           /\ ~Rolled
           /\ turn = prev.turn
           /\ players_needing_discard = Tail(prev.players_needing_discard)
           /\ Actor \notin Range(players_needing_discard)

\* The achievement owners are as the last call found them.
OwnersKept ==
    /\ longest_road_owner = prev.longest_road_owner
    /\ largest_army_owner = prev.largest_army_owner

(* C24.  A Discard(resource, count) applied in the discard phase takes     *)
(* min(count, holding) of that resource from the discarding seat and       *)
(* changes nothing else: not the seat's other resources, nor another       *)
(* seat's holding, the board, the achievement owners or the turn counter.  *)
C24_DiscardFrame ==
    (DiscardCall /\ call.type = "DISCARD") =>
        LET r == name_upper(call.resource)
            held == prev.resources[Actor][r]
            taken == IF call.count < held THEN call.count ELSE held
        IN  /\ resources = [prev.resources EXCEPT ![Actor][r] = held - taken]
            /\ ret.state.resources[Actor][call.resource] = held - taken
            /\ BoardKept
            /\ OwnersKept
            /\ turn = prev.turn
            /\ ret.state.turn = prev.turn

\* A discard of fewer cards than the seat holds of the resource.
C24_Witness ==
    /\ DiscardCall
    /\ call.type = "DISCARD"
    /\ 0 < call.count
    /\ call.count < prev.resources[Actor][name_upper(call.resource)]
    /\ resources[Actor][name_upper(call.resource)] > 0

\* A discard of more cards than the seat holds of the resource.
C24_WitnessClamped ==
    /\ DiscardCall
    /\ call.type = "DISCARD"
    /\ call.count > prev.resources[Actor][name_upper(call.resource)]
    /\ prev.resources[Actor][name_upper(call.resource)] > 0

\* The intersections with no building.
Empty == {c \in DOMAIN intersections : intersections[c] = NoBuilding}

\* The snapshot start_game returns, whatever the placements drawn.
FreshState ==
    [robber_position |-> RobberStart,
     resources |-> [s \in Seats |-> [n \in {name_lower(r) : r \in Resource} |-> StartResources]],
     longest_road_owner |-> None,
     largest_army_owner |-> None,
     current_player_index |-> 0,
     turn |-> 0,
     pending_discard |-> FALSE,
     victory_points |-> [s \in Seats |-> 1]]

\* The engine holds a game no step call has touched: Normal state, seat 0,
\* turn 0, one settlement a seat and nothing else on the board, equal
\* starting holdings, no achievement owner.
FreshGame ==
    /\ ~pending_discard
    /\ players_needing_discard = <<>>
    /\ current_player_index = 0
    /\ turn = 0
    /\ \A s \in Seats : Cardinality(Owned(s, "SETTLEMENT")) = 1 /\ Owned(s, "CITY") = {}
    /\ Cardinality(Empty) = NumIntersections - num_players
    /\ Cardinality(Empty) = 8
    /\ \A p \in DOMAIN paths : paths[p] = None
    /\ \A s \in Seats : roads[s] = {}
    /\ longest_road_owner = None
    /\ largest_army_owner = None
    /\ \A s \in Seats : knights_played[s] = 0
    /\ robber_position = RobberStart
    /\ \A s, t \in Seats : resources[s] = resources[t]
    /\ \A s \in Seats : \A r \in Resource : resources[s][r] = StartResources

(* C25.  Immediately after start_game the engine is in Normal state        *)
(* (pending_discard false, empty queue) with current seat 0 and turn 0;    *)
(* each of the 4 seats owns exactly one settlement on an intersection of   *)
(* its own, 8 of the 12 intersections are empty, there are no roads and no *)
(* achievement owners, every seat's victory points are 1 and all seats     *)
(* have the same holdings.                                                 *)
C25_StartState ==
    ~Called =>
        /\ FreshGame
        /\ \A s \in Seats : ret.state.victory_points[s] = 1
        /\ \A s \in Seats : LiveVictoryPoints(s) = 1
        /\ ~ret.state.pending_discard
        /\ ret.state.current_player_index = 0
        /\ ret.state.turn = 0
        /\ ~ret.done

\* start_game has just drawn intersections 5, 2, 11 and 8 for seats 0 to 3.
C25_Witness ==
    /\ ~Called
    /\ \A s \in Seats : Owned(s, "SETTLEMENT") = {<<5, 2, 11, 8>>[s + 1]}

\* The holding of scenario A: 1 brick, 1 lumber, 1 wool, 1 grain and 2 ore.
ScenarioAHolding == [r \in Resource |-> IF r = "ORE" THEN 2 ELSE 1]

\* Seat 0 is current in Normal state with the holding of scenario A, on a
\* board that holds the four seeded settlements and nothing else.
ScenarioA ==
    /\ ~pending_discard
    /\ current_player_index = 0
    /\ resources[0] = ScenarioAHolding
    /\ \A s \in Seats : Cardinality(Owned(s, "SETTLEMENT")) = 1
    /\ Cardinality(Empty) = 8
    /\ \A p \in DOMAIN paths : paths[p] = None

\* The actions of type kind get_legal_actions offers, in its order.
Offered(kind) == SelectSeq(get_legal_actions, LAMBDA a : a.type = kind)

(* C26.  Scenario A: on a fresh board, with seat 0 holding 1 brick, 1       *)
(* lumber, 1 wool, 1 grain and 2 ore, get_legal_actions contains exactly   *)
(* one BuildSettlement for each open intersection, 8 in all (12 minus the  *)
(* 4 seeded), and no BankTrade.                                            *)
C26_ScenarioA ==
    ScenarioA =>
        /\ Len(Offered("BUILD_SETTLEMENT")) = 8
        /\ Range(Offered("BUILD_SETTLEMENT")) = {BuildSettlement(c) : c \in Empty}
        /\ Offered("BANK_TRADE") = <<>>

\* The state of scenario A, reached after seat 0 gave a wool and a grain away.
C26_Witness ==
    /\ ScenarioA
    /\ Called
    /\ turn = FreshScriptEnd

(* C27.  start_game called on an engine that has been started and stepped *)
(* returns the snapshot the first call returned, and nothing of the        *)
(* earlier game survives it: the board holds the four new settlements      *)
(* only, there are no roads, the holdings are the starting ones, the queue *)
(* is empty, pending_discard is false, the turn is 0 and there are no      *)
(* achievement owners.                                                     *)
C27_StartAgain ==
    ~Called =>
        /\ ret.state = FreshState
        /\ ~ret.done
        /\ ret.info = EmptyInfo
        /\ FreshGame

\* start_game was called on a game in its discard phase, with a road built
\* and a turn played.
C27_Witness ==
    /\ ~Called
    /\ prev.turn >= 1
    /\ prev.pending_discard
    /\ prev.players_needing_discard # <<>>
    /\ \E s \in Seats : prev.roads[s] # {}
    /\ \E s \in Seats : prev.resources[s] # resources[s]

\* The place of the resource named n in RESOURCE_LIST.
ResourceRank(n) == CHOOSE i \in 1 .. Len(RESOURCE_LIST) : name_lower(RESOURCE_LIST[i]) = n

\* The place of an action in the order of enumeration: its kind, then the
\* indexes of its payload.
OrderKey(a) ==
    CASE a.type = "DISCARD" -> <<0, ResourceRank(a.resource), a.count>>
      [] a.type = "BUILD_SETTLEMENT" -> <<1, a.coords, 0>>
      [] a.type = "BUILD_ROAD" -> <<2, a.path[1], a.path[2]>>
      [] a.type = "BUILD_CITY" -> <<3, a.coords, 0>>
      [] a.type = "TRADE" -> <<4, ResourceRank(a.resource), a.to_player>>
      [] a.type = "BANK_TRADE" -> <<5, ResourceRank(a.give), ResourceRank(a.receive)>>
      [] a.type = "END_TURN" -> <<6, 0, 0>>

\* The triple k comes strictly before the triple l.
KeyBefore(k, l) ==
    \/ k[1] < l[1]
    \/ k[1] = l[1] /\ k[2] < l[2]
    \/ k[1] = l[1] /\ k[2] = l[2] /\ k[3] < l[3]

\* The list is in strictly ascending order of enumeration: no action twice.
InOrder(list) ==
    \A i, j \in 1 .. Len(list) : i < j => KeyBefore(OrderKey(list[i]), OrderKey(list[j]))

\* The list holds build, trade and END_TURN actions, END_TURN last.
EndsWithEndTurn(list) ==
    /\ \A a \in Range(list) : a.type \in BuildKinds \cup TradeKinds \cup {"END_TURN"}
    /\ list # <<>>
    /\ list[Len(list)] = EndTurn

(* C28, as stated.  In every state get_legal_actions returns a list        *)
(* without duplicates in the fixed order BuildSettlement by intersection,  *)
(* BuildRoad by path, BuildCity by intersection, GiftTrade by resource     *)
(* then recipient, BankTrade by give then receive, and a single EndTurn as *)
(* its last element.                                                       *)
C28_FixedOrder ==
    /\ InOrder(get_legal_actions)
    /\ EndsWithEndTurn(get_legal_actions)

(* C28, amended.  In every state the list is without duplicates and in a   *)
(* fixed order.  Outside the discard phase that order is BuildSettlement   *)
(* by intersection, BuildRoad by path, BuildCity by intersection,          *)
(* GiftTrade by resource then recipient, BankTrade by give then receive,   *)
(* and a single EndTurn last.  For a queued seat in the discard phase the  *)
(* list holds Discard actions only, by resource, or EndTurn alone.         *)
C28_FixedOrderByPhase ==
    /\ InOrder(get_legal_actions)
    /\ IF Discarding
       THEN \/ get_legal_actions = <<EndTurn>>
            \/ /\ get_legal_actions # <<>>
               /\ \A a \in Range(get_legal_actions) : a.type = "DISCARD"
       ELSE EndsWithEndTurn(get_legal_actions)

\* Outside the discard phase, a list with actions of all six kinds.
C28_Witness ==
    /\ ~Discarding
    /\ ~ret.done
    /\ \A kind \in BuildKinds \cup TradeKinds \cup {"END_TURN"} : Offered(kind) # <<>>
    /\ Len(Offered("TRADE")) > num_players
    /\ Len(Offered("BANK_TRADE")) > Len(RESOURCE_LIST)

\* The holding of the current seat.
Hand == resources[current_player_index]

\* The actions of one kind in the legal list, as a set.
OfferedSet(kind) == {a \in Range(get_legal_actions) : a.type = kind}

\* The paths no seat owns.
Unowned == {p \in DOMAIN paths : paths[p] = None}

(* C29.  Outside the discard phase the build part of the legal list is     *)
(* exact: BuildSettlement(i) for exactly the intersections with no         *)
(* building when the current seat holds at least 1 brick, 1 lumber, 1 wool *)
(* and 1 grain, and none otherwise; BuildRoad(p) for exactly the paths     *)
(* with no owner when it holds at least 1 brick and 1 lumber, and none     *)
(* otherwise; BuildCity(i) for exactly the intersections holding a         *)
(* settlement of the current seat when it holds at least 3 ore and 2       *)
(* grain, and none otherwise.                                              *)
C29_BuildOffers ==
    ~Discarding =>
        /\ OfferedSet("BUILD_SETTLEMENT") =
               IF Hand["BRICK"] >= 1 /\ Hand["LUMBER"] >= 1 /\ Hand["WOOL"] >= 1 /\ Hand["GRAIN"] >= 1
               THEN {BuildSettlement(i) : i \in Empty} ELSE {}
        /\ OfferedSet("BUILD_ROAD") =
               IF Hand["BRICK"] >= 1 /\ Hand["LUMBER"] >= 1
               THEN {BuildRoad(p) : p \in Unowned} ELSE {}
        /\ OfferedSet("BUILD_CITY") =
               IF Hand["ORE"] >= 3 /\ Hand["GRAIN"] >= 2
               THEN {BuildCity(i) : i \in Owned(current_player_index, "SETTLEMENT")} ELSE {}

\* The current seat owns a city and a settlement and affords all three
\* builds, after a settlement and a road were built: a city is offered on its
\* settlement only, a road on the free paths only, a settlement on the empty
\* intersections only.
C29_Witness ==
    /\ ~Discarding
    /\ ~ret.done
    /\ Owned(current_player_index, "CITY") # {}
    /\ OfferedSet("BUILD_CITY") # {}
    /\ OfferedSet("BUILD_ROAD") # {}
    /\ OfferedSet("BUILD_SETTLEMENT") # {}
    /\ Cardinality(Empty) < NumIntersections - num_players
    /\ Unowned # DOMAIN paths

\* The current seat affords a city but no road and no settlement.
C29_WitnessCityOnly ==
    /\ ~Discarding
    /\ ~ret.done
    /\ OfferedSet("BUILD_CITY") # {}
    /\ OfferedSet("BUILD_ROAD") = {}
    /\ OfferedSet("BUILD_SETTLEMENT") = {}

\* The current seat affords a settlement and a road but no city, after a
\* settlement and a road were built.
C29_WitnessSettlement ==
    /\ ~Discarding
    /\ ~ret.done
    /\ OfferedSet("BUILD_SETTLEMENT") # {}
    /\ OfferedSet("BUILD_ROAD") # {}
    /\ Cardinality(Empty) < NumIntersections - num_players
    /\ Unowned # DOMAIN paths
    /\ OfferedSet("BUILD_CITY") = {}

\* The resources the current seat holds at least n of.
HeldAtLeast(n) == {r \in Resource : Hand[r] >= n}

(* C30.  Outside the discard phase the trade part of the legal list is     *)
(* exact: GiftTrade(to, r) for exactly the pairs where the current seat    *)
(* holds at least 1 of r and to is another seat, never the current seat;   *)
(* BankTrade(give, receive) for exactly the pairs where the current seat   *)
(* holds at least 4 of give and receive is a different resource.           *)
C30_TradeOffers ==
    ~Discarding =>
        /\ OfferedSet("TRADE") =
               {GiftTrade(to, name_lower(r)) :
                    to \in Seats \ {current_player_index}, r \in HeldAtLeast(1)}
        /\ OfferedSet("BANK_TRADE") =
               {BankTrade(name_lower(give), name_lower(receive)) :
                    give \in HeldAtLeast(4), receive \in Resource} \
               {BankTrade(name_lower(r), name_lower(r)) : r \in Resource}

\* The current seat holds none of one resource, 1 to 3 of another and 4 or
\* more of a third.
C30_Witness ==
    /\ ~Discarding
    /\ ~ret.done
    /\ HeldAtLeast(1) # Resource
    /\ HeldAtLeast(4) # {}
    /\ HeldAtLeast(1) # HeldAtLeast(4)

(* C31.  Given the non-empty list get_legal_actions returns, the action    *)
(* RandomAgent.choose_action and LLMJsonAgent.choose_action return is an   *)
(* element of that list, for every draw and for every response of the text *)
(* source: usable or not, they never return an action outside the list.    *)
C31_ChoiceFromList ==
    get_legal_actions # <<>> =>
        /\ \A raw \in Responses :
               LLMJsonAgent_choose_action(ret.state, get_legal_actions, raw).action
                   \in Range(get_legal_actions)
        /\ \A i \in 0 .. Len(get_legal_actions) - 1 :
               RandomAgent_choose_action(ret.state, get_legal_actions, i).action
                   \in Range(get_legal_actions)

\* The last call was made with the action an LLMJsonAgent returns for raw on
\* the list and the snapshot it was given.
ChosenFor(raw) ==
    /\ Called
    /\ prev.current_player_index \in LLMSeats
    /\ call = LLMJsonAgent_choose_action([pending_discard |-> prev.pending_discard],
                                         PrevLegal, raw).action

\* An index past the end of the list was answered and an action of the list
\* other than its first and its last was played for it.
C31_Witness ==
    /\ ChosenFor(Response("json", TRUE, JsonInt(FarIndex), ""))
    /\ Len(PrevLegal) > 2
    /\ call \in Range(PrevLegal)
    /\ call # PrevLegal[1]
    /\ call # PrevLegal[Len(PrevLegal)]

\* The text source gave no document holding an index.
Unparsable(raw) == raw.form \in {"scalar", "text"} \/ ~raw.has_index

\* The text source gave an integer index outside the list.
OutOfRange(raw, list) ==
    /\ raw.has_index
    /\ raw.form \in {"json", "fenced", "prose", "mention"}
    /\ raw.index.t = "int"
    /\ raw.index.n \notin 0 .. Len(list) - 1

\* The text source gave the API-failure marker.
ApiFailure(raw) == raw.form = "json" /\ raw.error = "api_failed"

\* The first action of the list of one of the kinds.
FirstOf(list, kinds) ==
    list[CHOOSE i \in 1 .. Len(list) :
             /\ list[i].type \in kinds
             /\ \A j \in 1 .. i - 1 : list[j].type \notin kinds]

\* The list holds an action of one of the kinds.
Has(list, kinds) == \E a \in Range(list) : a.type \in kinds

\* The ordered policy build > bank-trade > discard-if-required > end-turn.
FallbackPolicy(pending, list) ==
    IF Has(list, BuildKinds) THEN FirstOf(list, BuildKinds)
    ELSE IF Has(list, {"BANK_TRADE"}) THEN FirstOf(list, {"BANK_TRADE"})
    ELSE IF pending /\ Has(list, {"DISCARD"}) THEN FirstOf(list, {"DISCARD"})
    ELSE EndTurn

C34_WitnessDiscard ==
    /\ ChosenFor(Response("json", TRUE, JsonInt(1), "api_failed"))
    /\ call.type = "DISCARD"
    /\ Len(PrevLegal) > 1
    /\ call = PrevLegal[1]

\* An index out of range was answered on a list of gifts and END_TURN, and
\* END_TURN was played for it.
C34_WitnessEndTurn ==
    /\ ChosenFor(Response("json", TRUE, JsonInt(-1), ""))
    /\ call = EndTurn
    /\ PrevLegal[1].type = "TRADE"

\* An index past the end was answered inside other text on a list with
\* builds, and the first build was played for it.
C34_WitnessBuild ==
    /\ ChosenFor(Response("prose", TRUE, JsonInt(FarIndex), ""))
    /\ call.type \in BuildKinds
    /\ call = PrevLegal[1]

\* What the first engine returned at the point the second engine has reached.
FirstReturned == IF twin.pos = 0 THEN twin.start ELSE twin.log[twin.pos].ret

C35_PhaseInvariant ==
    /\ pending_discard <=> players_needing_discard # <<>>
    /\ pending_discard => current_player_index = players_needing_discard[1]
    /\ Ascending(players_needing_discard)
    /\ Range(players_needing_discard) \subseteq Seats

\* A discard has been made and two or more seats are still queued, the first
\* of them current and not seat 0.
C35_Witness ==
    /\ DiscardCall
    /\ pending_discard
    /\ Len(players_needing_discard) >= 2
    /\ current_player_index = players_needing_discard[1]
    /\ current_player_index # 0

\* A phase has ended: the last call was a discard and nothing is pending.
C35_WitnessEnded ==
    /\ DiscardCall
    /\ ~pending_discard
    /\ players_needing_discard = <<>>

\* A 7 was rolled with no seat over the limit: no phase was entered.
C35_WitnessNoPhase ==
    /\ PreEmpted \/ TurnPlayed
    /\ ret.info["roll"] = 7
    /\ ~pending_discard

\* The last call was the discard that emptied the queue.
PhaseEnded == DiscardCall /\ prev.pending_discard /\ players_needing_discard = <<>>

(* C36.  When the last queued seat discards and the queue empties, the     *)
(* current seat stays the seat that made that discard, the only one left   *)
(* in the queue and so its highest; the turn counter is unchanged and no   *)
(* discard is pending, so the next call rolls the dice for that seat, and  *)
(* when it plays a turn to its end the seat after it becomes current.      *)
C36_LastDiscarderKeepsTurn ==
    /\ [](PhaseEnded =>
              /\ current_player_index = Actor
              /\ prev.players_needing_discard = <<Actor>>
              /\ turn = prev.turn
              /\ ~pending_discard)
    /\ [][PhaseEnded =>
              /\ Rolled'
              /\ Actor' = current_player_index
              /\ TurnPlayed' => current_player_index' = next_player(current_player_index)]_vars

\* The phase opened by seat 0's first roll has ended: seat 3, the last
\* discarder, is current in turn 0.
C36_Witness ==
    /\ PhaseEnded
    /\ turn = 0
    /\ current_player_index = 3
    /\ ~ret.done

\* The last discarder has played the turn after the phase: the roll was not
\* a 7 and the seat after it is current.
C36_WitnessNextTurn ==
    /\ TurnPlayed
    /\ prev.turn = 0
    /\ Actor = 3
    /\ current_player_index = 0

\* The last call was made outside the discard phase with an action of the
\* list get_legal_actions returned just before it.
LegalNormalCall == Called /\ ~PrevInDiscard /\ call \in Range(PrevLegal)

(* C37.  Outside the discard phase, an action returned by get_legal_actions *)
(* and passed to the next call is applied successfully whenever that call  *)
(* is not pre-empted by a 7: info has action_succeeded true and no         *)
(* action_failed.                                                          *)
C37_LegalActionSucceeds ==
    (LegalNormalCall /\ ~PreEmpted) =>
        /\ TurnPlayed
        /\ ret.info["action_succeeded"] = TRUE
        /\ ~Failed
        /\ "action_error" \notin DOMAIN ret.info

\* A legal build was applied after the yield of the same call.
C37_Witness ==
    /\ LegalNormalCall
    /\ TurnPlayed
    /\ call.type \in BuildKinds
    /\ ret.info["roll"] # 7

\* A legal bank trade was applied.
C37_WitnessBankTrade ==
    /\ LegalNormalCall
    /\ TurnPlayed
    /\ call.type = "BANK_TRADE"

\* A legal action was applied on a 7 that found no seat over the limit.
C37_WitnessSeven ==
    /\ LegalNormalCall
    /\ TurnPlayed
    /\ ret.info["roll"] = 7
    /\ call.type # "END_TURN"

(* C38.  Under legal play a seat at the front of the discard queue holds   *)
(* more than 7 cards, so the count required of it is at least 4;           *)
(* get_legal_actions returns at least one action, all of them Discard,     *)
(* each with a count between 1 and the seat's holding of the resource      *)
(* named; and the discard applied removes exactly the count declared.      *)
C38_QueuedSeatOverLimit ==
    /\ Discarding =>
           /\ total_cards(Hand) > DiscardLimit
           /\ Required >= 4
           /\ get_legal_actions # <<>>
           /\ \A a \in Range(get_legal_actions) :
                  /\ a.type = "DISCARD"
                  /\ 1 <= a.count
                  /\ a.count <= Hand[name_upper(a.resource)]
    /\ (DiscardCall /\ call.type = "DISCARD") =>
           resources[Actor][name_upper(call.resource)] =
               prev.resources[Actor][name_upper(call.resource)] - call.count

\* A seat that was not the first of the queue has reached its front after
\* another seat discarded.
C38_Witness ==
    /\ DiscardCall
    /\ Discarding
    /\ current_player_index # Actor
    /\ Required >= 4

\* A discard of the whole required count has been applied.
C38_WitnessFullCount ==
    /\ DiscardCall
    /\ call.type = "DISCARD"
    /\ call.count >= 4
    /\ call.count = prev.resources[Actor][name_upper(call.resource)] -
                        resources[Actor][name_upper(call.resource)]

\* A queued seat is offered the best-effort discard only.
C38_WitnessBestEffort ==
    /\ DiscardCall
    /\ Discarding
    /\ Len(get_legal_actions) = 1
    /\ get_legal_actions[1].count < Required

(* C39.  Termination.  Under legal play, whatever the dice and the actions  *)
(* chosen, the loop of step calls reaches done = true: every call either   *)
(* advances the turn counter, or leaves it and lowers the number of cards  *)
(* held (a discard), or leaves both and opens a discard phase (a 7, which  *)
(* gives no yield); and the counter stays below max_turns while the game   *)
(* is not done.                                                            *)

\* One step call makes progress in the order (turn, cards held, phase open).
ProgressMade ==
    \/ turn' = turn + 1
    \/ turn' = turn /\ AllCards' < AllCards
    \/ turn' = turn /\ AllCards' = AllCards /\ ~pending_discard /\ pending_discard'

C39_Termination ==
    /\ <>(ret.done)
    /\ [](~ret.done => turn < max_turns)
    /\ [][ProgressMade]_vars

\* The turn limit ended a game in which discard phases had brought every
\* seat down to the limit or under it.
C39_Witness ==
    /\ ret.done
    /\ TurnPlayed
    /\ turn = max_turns
    /\ \A s \in Seats : total_cards(resources[s]) <= DiscardLimit

(* C40.  The board and the players' records agree and builds are           *)
(* permanent: a path is owned by a seat on the board exactly when it is in *)
(* that seat's road set; a call never changes the owner of a path or of an *)
(* intersection that had one, never removes a building, and changes an     *)
(* occupied intersection only by the owner's upgrade of a settlement to a  *)
(* city.                                                                   *)
C40_BuildsPermanent ==
    /\ \A p \in DOMAIN paths : \A s \in Seats : (paths[p] = s) <=> (p \in roads[s])
    /\ \A p \in DOMAIN paths : prev.paths[p] # None => paths[p] = prev.paths[p]
    /\ \A s \in Seats : prev.roads[s] \subseteq roads[s]
    /\ \A c \in DOMAIN intersections :
           prev.intersections[c] # NoBuilding =>
               /\ intersections[c] # NoBuilding
               /\ intersections[c].owner = prev.intersections[c].owner
               /\ prev.intersections[c].building_type = "CITY"
                      => intersections[c].building_type = "CITY"
               /\ intersections[c] # prev.intersections[c] =>
                      /\ call = BuildCity(c)
                      /\ prev.intersections[c] = Building(Actor, "SETTLEMENT")
                      /\ intersections[c] = Building(Actor, "CITY")

\* A turn was played with a BuildCity on an intersection that held a city.
C40_Witness ==
    /\ TurnPlayed
    /\ call.type = "BUILD_CITY"
    /\ prev.intersections[call.coords].building_type = "CITY"

\* A turn was played with a BuildCity on another seat's building, by a seat
\* that could pay for a city.
C40_WitnessForeign ==
    /\ TurnPlayed
    /\ call.type = "BUILD_CITY"
    /\ prev.intersections[call.coords] # NoBuilding
    /\ prev.intersections[call.coords].owner # Actor
    /\ has_resources(prev.resources[Actor], CITY_COST)

\* A seat has upgraded its settlement to a city.
C40_WitnessUpgrade ==
    /\ TurnPlayed
    /\ call.type = "BUILD_CITY"
    /\ intersections[call.coords] = Building(Actor, "CITY")
    /\ prev.intersections[call.coords] = Building(Actor, "SETTLEMENT")

\* A turn was played with a BuildRoad on a path another seat owned.
C40_WitnessRoad ==
    /\ TurnPlayed
    /\ call.type = "BUILD_ROAD"
    /\ call.path \in DOMAIN paths
    /\ prev.paths[call.path] \notin {None, Actor}

====
